---- MODULE Spec2Model ----
(***************************************************************************)
(* A model of the Game Boy emulator core in src/gb.c: the memory bus       *)
(* (read_mem8 / write_mem8), the interrupt controller (handle_interrupts), *)
(* the clock coordinator (wait), the PPU mode machine (update_screen) and  *)
(* the CPU interpreter (step).                                             *)
(*                                                                         *)
(* The emulator state is the record gb, one field per field of struct gb   *)
(* (src/gb.h).  The functions of gb.c are operators from a gb record to    *)
(* the gb record they leave behind, composed in the order the C code calls *)
(* them.  address_space is kept for the cells of Tracked only; an action   *)
(* that would touch another cell is not taken.  Program bytes fetched from *)
(* cells outside Tracked are an input of step.  The frame buffer           *)
(* (gb->screen) is written by the renderer and read by nobody in gb.c; the *)
(* field screen keeps of it whether every pixel is 0 ("zero") or the       *)
(* renderer has drawn into it ("drawn").                                   *)
(***************************************************************************)
EXTENDS Integers, Naturals, Sequences, FiniteSets, TLC

VARIABLES gb, ctl, timer_enabled

vars == <<gb, ctl, timer_enabled>>

---------------------------------------------------------------------------
(* Bit arithmetic on bytes and words, as the C operators compute it.       *)

Bit(x, n) == (x \div (2 ^ n)) % 2

And8(a, b) ==
    Bit(a, 0) * Bit(b, 0) + 2 * Bit(a, 1) * Bit(b, 1)
    + 4 * Bit(a, 2) * Bit(b, 2) + 8 * Bit(a, 3) * Bit(b, 3)
    + 16 * Bit(a, 4) * Bit(b, 4) + 32 * Bit(a, 5) * Bit(b, 5)
    + 64 * Bit(a, 6) * Bit(b, 6) + 128 * Bit(a, 7) * Bit(b, 7)

Or8(a, b) == a + b - And8(a, b)

Xor8(a, b) == a + b - 2 * And8(a, b)

U8(x) == x % 256

U16(x) == x % 65536

Lo(w) == w % 256

Hi(w) == (w \div 256) % 256

---------------------------------------------------------------------------
(* Addresses and enumerations of gb.c and gb.h.                            *)

HEADER_OFFSET == 256
UNSIGNED_TILE_DATA_BASE == 32768
CARTRIDGE_RAM == 40960
WRAM == 49152
ECHO_RAM == 57344
OAM == 65024
UNUSED_ADDRESSES == 65184
IO_REGS == 65280
FAST_RAM == 65408

VBLANK_INTERRUPT_ADDRESS == 64
LCD_STAT_INTERRUPT_ADDRESS == 72
TIMER_INTERRUPT_ADDRESS == 80
SERIAL_INTERRUPT_ADDRESS == 88
JOYPAD_INTERRUPT_ADDRESS == 96

LCD_CONTROL == 65344
LCD_STATUS == 65345
LY == 65348
LYC == 65349
OAM_DMA_START == 65350
BGP == 65351
OBP0 == 65352
OBP1 == 65353

JOYPAD_PORT == 65280
SERIAL_DATA == 65281
DIVIDER_REGISTER == 65284
TIMA == 65285
TMA == 65286
TAC == 65287
INTERRUPT_FLAGS == 65295
INTERRUPT_ENABLE == 65535

CLOCKS_PER_DIVIDER_INCREMENT == 64

INT_VBLANK == 1
INT_STAT == 2
INT_TIMER == 4
INT_SERIAL == 8
INT_JOYPAD == 16

FL_Z == 128
FL_N == 64
FL_H == 32
FL_C == 16

HBLANK == 0
VBLANK == 1
SEARCHING == 2
TRANSFERRING == 3

NEITHER == 0
ACTIONS_ROW == 1
DIRECTIONS_ROW == 2
BOTH == 3

GB_KEY_A == 0
GB_KEY_B == 1
GB_KEY_START == 2
GB_KEY_SELECT == 3
GB_KEY_UP == 4
GB_KEY_DOWN == 5
GB_KEY_LEFT == 6
GB_KEY_RIGHT == 7
NUM_BUTTONS == 8

DOTS_PER_FRAME == 70224
DOTS_PER_LINE == 456
DOTS_PER_CYCLE == 16
VBLANK_START_DOT == 65664
HBLANK_START_DOT == 248
TRANSFER_START_DOT == 80
DMA_CYCLES == 160
DMA_LENGTH == 160
INTERRUPT_CYCLES == 5

---------------------------------------------------------------------------
(* The cells of address_space the model keeps: a few of every region of    *)
(* the memory map, the I/O registers gb.c gives a meaning, two stack areas *)
(* (under the initial SP 0xFFFE, and at the top of mirrored work RAM), and *)
(* the first, the middle and the last byte of OAM and of some pages an OAM *)
(* DMA may copy from.                                                      *)

Tracked ==
    { 0, 80, 159, 16384, 32767,           \* ROM: page 0, bank 1, last byte
      32768,                              \* VRAM
      40960,                              \* cartridge RAM
      49152, 49153, 49232, 49311,         \* work RAM, page 0xC0
      56829, 56830, 56831,                \* work RAM, 0xDDFD..0xDDFF
      57344, 57345, 65021, 65022, 65023,  \* echo RAM, 0xFDFD..0xFDFF
      65024, 65104, 65183,                \* OAM
      65184,                              \* unused
      65280, 65281, 65284, 65285, 65286, 65287, 65295,
      65344, 65345, 65348, 65349, 65350, 65351, 65360,
      65408, 65439, 65530, 65531, 65532, 65533, 65534,  \* high RAM
      65535 }


---------------------------------------------------------------------------
(* The bus: read_mem8, read_mem16, is_writable, do_dma, write_mem8,        *)
(* write_mem16.                                                            *)

\* The address read_mem8 ends up reading after its echo adjustment.
read_addr(addr) ==
    IF ECHO_RAM < addr /\ addr < OAM THEN addr - 8192 ELSE addr

\* read_mem8 of JOYPAD_PORT as of any other address: the stored byte.
read_joypad_stored(g) == g.address_space[JOYPAD_PORT]

\* The synthesized joypad byte.
read_joypad(g) ==
    LET b == g.buttons_pressed
        base == 192 + (IF g.joypad_mode # 0 THEN 16 ELSE 0)
        dirs == IF And8(g.joypad_mode, DIRECTIONS_ROW) # 0
                THEN 8 * b[GB_KEY_DOWN] + 4 * b[GB_KEY_UP]
                     + 2 * b[GB_KEY_LEFT] + b[GB_KEY_RIGHT]
                ELSE 0
        acts == IF And8(g.joypad_mode, ACTIONS_ROW) # 0
                THEN 8 * b[GB_KEY_START] + 4 * b[GB_KEY_SELECT]
                     + 2 * b[GB_KEY_B] + b[GB_KEY_A]
                ELSE 0
    IN  Or8(Or8(base, dirs), acts)

read_mem8(g, addr) ==
    IF read_addr(addr) = JOYPAD_PORT
    THEN read_joypad(g)
    ELSE g.address_space[read_addr(addr)]

read_mem16(g, addr) ==
    read_mem8(g, U16(addr + 1)) * 256 + read_mem8(g, addr)

\* is_writable with the lower limit of its first range at 0x4000.
is_writable_from_bank(addr) ==
    \/ 16384 <= addr /\ addr < ECHO_RAM
    \/ OAM <= addr /\ addr < INTERRUPT_ENABLE

is_writable(addr) ==
    \/ UNSIGNED_TILE_DATA_BASE <= addr /\ addr < ECHO_RAM
    \/ OAM <= addr /\ addr < INTERRUPT_ENABLE

\* The OAM cells the model keeps, as offsets from OAM.
OamOffsets == {i \in 0..(DMA_LENGTH - 1) : OAM + i \in Tracked}

\* do_dma reading address_space behind the echo adjustment, without the
\* joypad byte of read_mem8.
do_dma_joypad_stored(g, src) ==
    [g EXCEPT
        !.cycles_to_wait = @ + DMA_CYCLES,
        !.address_space =
            [a \in Tracked |->
                IF a >= OAM /\ a - OAM \in OamOffsets
                THEN g.address_space[read_addr(U16(src * 256 + (a - OAM)))]
                ELSE g.address_space[a]]]

\* The loop of do_dma reads the page of src as it is before the copy: the
\* only page the copy writes to is OAM itself, copied onto itself.
do_dma(g, src) ==
    [g EXCEPT
        !.cycles_to_wait = @ + DMA_CYCLES,
        !.address_space =
            [a \in Tracked |->
                IF a >= OAM /\ a - OAM \in OamOffsets
                THEN read_mem8(g, U16(src * 256 + (a - OAM)))
                ELSE g.address_space[a]]]

\* case DIVIDER_REGISTER storing val.
write_divider_stored(g, val) ==
    [g EXCEPT !.address_space[DIVIDER_REGISTER] = val]

\* case DIVIDER_REGISTER of write_mem8
write_divider(g, val) ==
    [g EXCEPT !.address_space[DIVIDER_REGISTER] = 0]

\* case SERIAL_DATA storing val.
write_serial_stored(g, val) ==
    [g EXCEPT !.address_space[SERIAL_DATA] = val]

\* case SERIAL_DATA of write_mem8: val goes to the debug output only.
write_serial(g, val) == g

\* The default case of write_mem8 storing whatever is_writable says.
write_default_unchecked(g, addr, val) ==
    [g EXCEPT !.address_space[addr] = val]

\* The default case of write_mem8: the store if is_writable, else only a
\* message on stderr.
write_default(g, addr, val) ==
    IF is_writable(addr)
    THEN [g EXCEPT !.address_space[addr] = val]
    ELSE g

\* case JOYPAD_PORT of write_mem8 without the store of gb->joypad_mode.
write_joypad_mode_kept(g, val) ==
    [g EXCEPT !.address_space[JOYPAD_PORT] = (@ % 16) + (val - (val % 16))]

\* case JOYPAD_PORT of write_mem8.
write_joypad(g, val) ==
    [g EXCEPT !.address_space[JOYPAD_PORT] = (@ % 16) + (val - (val % 16)),
              !.joypad_mode = (val \div 16) % 4]

write_mem8(g, addr, val) ==
    CASE addr = DIVIDER_REGISTER -> write_divider(g, val)
      [] addr = SERIAL_DATA -> write_serial(g, val)
      [] addr = JOYPAD_PORT -> write_joypad(g, val)
      [] addr = INTERRUPT_FLAGS \/ addr = INTERRUPT_ENABLE ->
            [g EXCEPT !.address_space[addr] = val,
                      !.need_to_do_interrupts = 1]
      [] addr = OAM_DMA_START -> do_dma(g, val)
      [] OTHER -> write_default(g, addr, val)

\* write_mem16 storing the high byte at addr and the low byte at addr + 1.
write_mem16_high_first(g, addr, val) ==
    write_mem8(write_mem8(g, addr, U8(val \div 256)), U16(addr + 1), U8(val))

write_mem16(g, addr, val) ==
    write_mem8(write_mem8(g, addr, U8(val)), U16(addr + 1), U8(val \div 256))

\* The cells a read or a write of addr touches.
read_cells(addr) == {read_addr(addr)}

dma_cells(src) == {read_addr(U16(src * 256 + i)) : i \in OamOffsets}

---------------------------------------------------------------------------
(* The interrupt controller and the buttons.                               *)

\* request_interrupt storing into IF without write_mem8, so without
\* gb->need_to_do_interrupts = 1.
request_interrupt_unflagged(g, interrupt) ==
    LET g1 == [g EXCEPT !.address_space[INTERRUPT_FLAGS] =
                            Or8(read_mem8(g, INTERRUPT_FLAGS), interrupt)]
    IN  IF interrupt = INT_VBLANK
        THEN [g1 EXCEPT !.vblank_requests = @ + 1]
        ELSE g1

\* request_interrupt; vblank_requests counts the calls made for INT_VBLANK.
request_interrupt(g, interrupt) ==
    LET g1 == write_mem8(g, INTERRUPT_FLAGS,
                         Or8(read_mem8(g, INTERRUPT_FLAGS), interrupt))
    IN  IF interrupt = INT_VBLANK
        THEN [g1 EXCEPT !.vblank_requests = @ + 1]
        ELSE g1

\* press_button without its call of request_interrupt.
press_button_silent(g, btn) ==
    [g EXCEPT !.buttons_pressed[btn] = 0]

press_button(g, btn) ==
    request_interrupt([g EXCEPT !.buttons_pressed[btn] = 0], INT_JOYPAD)

release_button(g, btn) ==
    [g EXCEPT !.buttons_pressed[btn] = 1]

\* The if-else chain of handle_interrupts in the opposite order.
serviced_interrupt_reversed(requested, enabled) ==
    CASE Bit(requested, 4) = 1 /\ Bit(enabled, 4) = 1 -> 4
      [] Bit(requested, 3) = 1 /\ Bit(enabled, 3) = 1 -> 3
      [] Bit(requested, 2) = 1 /\ Bit(enabled, 2) = 1 -> 2
      [] Bit(requested, 1) = 1 /\ Bit(enabled, 1) = 1 -> 1
      [] Bit(requested, 0) = 1 /\ Bit(enabled, 0) = 1 -> 0
      [] OTHER -> -1

\* The interrupt handle_interrupts picks: its bit number, or -1 for none.
serviced_interrupt(requested, enabled) ==
    CASE Bit(requested, 0) = 1 /\ Bit(enabled, 0) = 1 -> 0
      [] Bit(requested, 1) = 1 /\ Bit(enabled, 1) = 1 -> 1
      [] Bit(requested, 2) = 1 /\ Bit(enabled, 2) = 1 -> 2
      [] Bit(requested, 3) = 1 /\ Bit(enabled, 3) = 1 -> 3
      [] Bit(requested, 4) = 1 /\ Bit(enabled, 4) = 1 -> 4
      [] OTHER -> -1

interrupt_vector(n) ==
    CASE n = 0 -> VBLANK_INTERRUPT_ADDRESS
      [] n = 1 -> LCD_STAT_INTERRUPT_ADDRESS
      [] n = 2 -> TIMER_INTERRUPT_ADDRESS
      [] n = 3 -> SERIAL_INTERRUPT_ADDRESS
      [] n = 4 -> JOYPAD_INTERRUPT_ADDRESS
      [] OTHER -> 65535

\* enter_interrupt without gb->ime = 0.
enter_interrupt_ime_kept(g, new_pc) ==
    [write_mem16(g, U16(g.sp + 65534), g.pc)
        EXCEPT !.sp = U16(@ + 65534), !.pc = new_pc]

\* The block of handle_interrupts under if (new_pc != 0xFFFF).
enter_interrupt(g, new_pc) ==
    [write_mem16([g EXCEPT !.ime = 0], U16(g.sp + 65534), g.pc)
        EXCEPT !.sp = U16(@ + 65534), !.pc = new_pc]

\* The first if of handle_interrupts looking at the five interrupt bits
\* only.
wake_halted_five_bits(g, requested, enabled) ==
    IF And8(And8(requested, enabled), 31) # 0
    THEN [g EXCEPT !.halted = 0]
    ELSE g

\* The first if of handle_interrupts.
wake_halted(g, requested, enabled) ==
    IF And8(requested, enabled) # 0
    THEN [g EXCEPT !.halted = 0]
    ELSE g

handle_interrupts(g) ==
    LET interrupts_requested == read_mem8(g, INTERRUPT_FLAGS)
        interrupts_enabled == read_mem8(g, INTERRUPT_ENABLE)
        g1 == wake_halted(g, interrupts_requested, interrupts_enabled)
        n == serviced_interrupt(interrupts_requested, interrupts_enabled)
        new_pc == interrupt_vector(n)
        g2 == IF n >= 0
              THEN [g1 EXCEPT !.address_space[INTERRUPT_FLAGS] =
                                  interrupts_requested - 2 ^ n]
              ELSE g1
        g3 == IF new_pc # 65535 THEN enter_interrupt(g2, new_pc) ELSE g2
    IN  IF g1.ime = 0
        THEN g1
        ELSE [g3 EXCEPT !.cycles_to_wait = @ + INTERRUPT_CYCLES,
                        !.need_to_do_interrupts = 0]

\* The cells handle_interrupts writes.
interrupt_cells(g) ==
    IF /\ g.ime = 1
       /\ serviced_interrupt(read_mem8(g, INTERRUPT_FLAGS),
                             read_mem8(g, INTERRUPT_ENABLE)) >= 0
    THEN {U16(g.sp + 65534), U16(g.sp + 65535)}
    ELSE {}

---------------------------------------------------------------------------
(* The PPU mode machine.                                                   *)

\* enter_hblank requesting the STAT interrupt whatever STAT bit 3 is.
enter_hblank_ungated(g) ==
    LET stat == read_mem8(g, LCD_STATUS)
        g1 == [g EXCEPT !.address_space[LCD_STATUS] = stat - (stat % 4),
                        !.graphics_mode = HBLANK]
    IN  request_interrupt(g1, INT_STAT)

enter_hblank(g) ==
    LET stat == read_mem8(g, LCD_STATUS)
        g1 == [g EXCEPT !.address_space[LCD_STATUS] = stat - (stat % 4),
                        !.graphics_mode = HBLANK]
    IN  IF Bit(read_mem8(g1, LCD_STATUS), 3) = 1
        THEN request_interrupt(g1, INT_STAT)
        ELSE g1

\* enter_vblank without gb->graphics_mode = VBLANK.
enter_vblank_mode_kept(g) ==
    LET stat == read_mem8(g, LCD_STATUS)
        g1 == [g EXCEPT !.address_space[LCD_STATUS] = stat - (stat % 4) + 1]
        g2 == IF Bit(read_mem8(g1, LCD_STATUS), 4) = 1
              THEN request_interrupt(g1, INT_STAT)
              ELSE g1
    IN  request_interrupt(g2, INT_VBLANK)

enter_vblank(g) ==
    LET stat == read_mem8(g, LCD_STATUS)
        g1 == [g EXCEPT !.address_space[LCD_STATUS] = stat - (stat % 4) + 1]
        g2 == IF Bit(read_mem8(g1, LCD_STATUS), 4) = 1
              THEN request_interrupt(g1, INT_STAT)
              ELSE g1
    IN  [request_interrupt(g2, INT_VBLANK) EXCEPT !.graphics_mode = VBLANK]

enter_searching(g) ==
    LET stat == read_mem8(g, LCD_STATUS)
        g1 == [g EXCEPT !.address_space[LCD_STATUS] = stat - (stat % 4) + 2,
                        !.graphics_mode = SEARCHING]
    IN  IF Bit(read_mem8(g1, LCD_STATUS), 5) = 1
        THEN request_interrupt(g1, INT_STAT)
        ELSE g1

enter_transferring(g) ==
    [g EXCEPT !.address_space[LCD_STATUS] = Or8(read_mem8(g, LCD_STATUS), 3),
              !.graphics_mode = TRANSFERRING]

\* The LY = LYC comparison of update_screen never clearing STAT bit 2.
compare_ly_sticky(g) ==
    IF read_mem8(g, LY) = read_mem8(g, LYC)
    THEN LET g3a == write_mem8(g, LCD_STATUS,
                               Or8(read_mem8(g, LCD_STATUS), 4))
         IN  IF Bit(read_mem8(g3a, LCD_STATUS), 6) = 1
             THEN request_interrupt(g3a, INT_STAT)
             ELSE g3a
    ELSE g

\* The LY = LYC comparison of update_screen: STAT bit 2 and the STAT
\* interrupt.
compare_ly(g) ==
    IF read_mem8(g, LY) = read_mem8(g, LYC)
    THEN LET g3a == write_mem8(g, LCD_STATUS,
                               Or8(read_mem8(g, LCD_STATUS), 4))
         IN  IF Bit(read_mem8(g3a, LCD_STATUS), 6) = 1
             THEN request_interrupt(g3a, INT_STAT)
             ELSE g3a
    ELSE write_mem8(g, LCD_STATUS, And8(read_mem8(g, LCD_STATUS), 251))

\* update_screen; of the rendering into gb->screen it keeps the count of
\* the calls of render_background, render_window and render_sprites, in
\* screen_renders, and that pixels were drawn, in screen.
update_screen(g) ==
    LET g1 == [g EXCEPT !.dot_count = (@ + DOTS_PER_CYCLE) % DOTS_PER_FRAME]
        g2 == write_mem8(g1, LY, U8(g1.dot_count \div DOTS_PER_LINE))
        g3 == compare_ly(g2)
        lcdc == read_mem8(g3, LCD_CONTROL)
        rendered(h) ==
            [h EXCEPT !.screen_renders =
                        @ + Bit(lcdc, 0) * (1 + Bit(lcdc, 5)) + Bit(lcdc, 1),
                      !.screen =
                        IF Bit(lcdc, 0) = 1 \/ Bit(lcdc, 1) = 1
                        THEN "drawn" ELSE @]
    IN  CASE g3.dot_count >= VBLANK_START_DOT ->
                IF g3.graphics_mode # VBLANK
                THEN rendered(enter_vblank(g3))
                ELSE g3
          [] g3.dot_count < VBLANK_START_DOT
             /\ g3.dot_count % DOTS_PER_LINE >= HBLANK_START_DOT ->
                IF g3.graphics_mode # HBLANK THEN enter_hblank(g3) ELSE g3
          [] g3.dot_count < VBLANK_START_DOT
             /\ g3.dot_count % DOTS_PER_LINE < HBLANK_START_DOT
             /\ g3.dot_count % DOTS_PER_LINE >= TRANSFER_START_DOT ->
                IF g3.graphics_mode # TRANSFERRING
                THEN enter_transferring(g3) ELSE g3
          [] OTHER ->
                IF g3.graphics_mode # SEARCHING THEN enter_searching(g3) ELSE g3

---------------------------------------------------------------------------
(* The clock coordinator: one iteration of the loop of wait().             *)

\* C's % on int: the result has the sign of the dividend.
c_rem(a, b) == IF a >= 0 THEN a % b ELSE 0 - ((0 - a) % b)

clocks_per_timer_increment(tac) ==
    U8(2 ^ ((c_rem((tac % 4) - 1, 4) + 1) * 2))

\* The timer's increment of TIMA wrapping 0xFF to 0 instead of reloading.
timer_tick_wrapping(g) ==
    IF read_mem8(g, TIMA) = 255
    THEN request_interrupt(write_mem8(g, TIMA, 0), INT_TIMER)
    ELSE write_mem8(g, TIMA, U8(read_mem8(g, TIMA) + 1))

\* The body of the timer's if in wait(): TIMA reloads from TMA or counts.
timer_tick(g) ==
    IF read_mem8(g, TIMA) = 255
    THEN request_interrupt(write_mem8(g, TIMA, read_mem8(g, TMA)), INT_TIMER)
    ELSE write_mem8(g, TIMA, U8(read_mem8(g, TIMA) + 1))

\* wait_count without gb->cycles_to_wait -= 1.
wait_count_owed_kept(g) ==
    [g EXCEPT !.cycle_count = @ + 1]

\* gb->cycle_count += 1; gb->cycles_to_wait -= 1
wait_count(g) ==
    [g EXCEPT !.cycle_count = @ + 1, !.cycles_to_wait = @ - 1]

\* wait_iteration calling update_screen whatever LCDC bit 7 is.
wait_iteration_lcd_ignored(g, enabled) ==
    LET g1 == wait_count(g)
        g2 == IF g1.cycle_count % CLOCKS_PER_DIVIDER_INCREMENT = 0
              THEN write_mem8(g1, DIVIDER_REGISTER,
                              U8(read_mem8(g1, DIVIDER_REGISTER) + 1))
              ELSE g1
        period == clocks_per_timer_increment(read_mem8(g2, TAC))
        g3 == IF enabled = 1 /\ g2.cycle_count % period = 0
              THEN timer_tick(g2)
              ELSE g2
    IN  update_screen(g3)

\* One iteration of the loop of wait().
wait_iteration(g, enabled) ==
    LET g1 == wait_count(g)
        g2 == IF g1.cycle_count % CLOCKS_PER_DIVIDER_INCREMENT = 0
              THEN write_mem8(g1, DIVIDER_REGISTER,
                              U8(read_mem8(g1, DIVIDER_REGISTER) + 1))
              ELSE g1
        period == clocks_per_timer_increment(read_mem8(g2, TAC))
        g3 == IF enabled = 1 /\ g2.cycle_count % period = 0
              THEN timer_tick(g2)
              ELSE g2
    IN  IF read_mem8(g3, LCD_CONTROL) \div 128 # 0
        THEN update_screen(g3)
        ELSE g3

---------------------------------------------------------------------------
(* initialize(): file is what fread loads into the kept cells, dot is the  *)
(* value of dot_count, which initialize() leaves as it finds it.           *)

\* initialize() without its stores into the I/O registers: the cell is as
\* fread left it.
initial_cell_as_loaded(file, a) == file[a]

\* The byte of the kept cell a after the stores of initialize().
initial_cell(file, a) ==
    CASE a = DIVIDER_REGISTER -> 24
      [] a = TIMA -> 0
      [] a = TMA -> 0
      [] a = TAC -> 248
      [] a = INTERRUPT_FLAGS -> 225
      [] a = LCD_CONTROL -> 145
      [] a = LCD_STATUS -> 129
      [] a = LY -> 145
      [] a = LYC -> 0
      [] a = OAM_DMA_START -> 255
      [] a = BGP -> 252
      [] a = INTERRUPT_ENABLE -> 0
      [] OTHER -> file[a]

initialize(file, dot) ==
    [ af |-> 432, bc |-> 19, de |-> 216, hl |-> 333, pc |-> 256, sp |-> 65534,
      ime |-> 0,
      address_space |-> [a \in Tracked |-> initial_cell(file, a)],
      screen |-> "zero",
      cycles_to_wait |-> 0,
      cycle_count |-> 0,
      need_to_do_interrupts |-> 1,
      dot_count |-> dot,
      graphics_mode |-> SEARCHING,
      halted |-> 0,
      buttons_pressed |-> [b \in 0..(NUM_BUTTONS - 1) |-> 1],
      joypad_mode |-> BOTH,
      vblank_requests |-> 0,
      screen_renders |-> 0 ]

---------------------------------------------------------------------------
(* The CPU: registers, flags and the arithmetic helpers of step().         *)

R_A == 7
R_B == 0
R_C == 1
R_D == 2
R_E == 3
R_H == 4
R_L == 5

DD_BC == 0
DD_DE == 1
DD_HL == 2
DD_SP == 3

QQ_AF == 3

\* *r_reg(gb, r)
r_reg(g, r) ==
    CASE r = R_A -> Hi(g.af)
      [] r = R_B -> Hi(g.bc)
      [] r = R_C -> Lo(g.bc)
      [] r = R_D -> Hi(g.de)
      [] r = R_E -> Lo(g.de)
      [] r = R_H -> Hi(g.hl)
      [] r = R_L -> Lo(g.hl)

\* *r_reg(gb, r) = v
set_r_reg(g, r, v) ==
    CASE r = R_A -> [g EXCEPT !.af = v * 256 + Lo(@)]
      [] r = R_B -> [g EXCEPT !.bc = v * 256 + Lo(@)]
      [] r = R_C -> [g EXCEPT !.bc = Hi(@) * 256 + v]
      [] r = R_D -> [g EXCEPT !.de = v * 256 + Lo(@)]
      [] r = R_E -> [g EXCEPT !.de = Hi(@) * 256 + v]
      [] r = R_H -> [g EXCEPT !.hl = v * 256 + Lo(@)]
      [] r = R_L -> [g EXCEPT !.hl = Hi(@) * 256 + v]

\* *dd_reg(gb, dd)
dd_reg(g, dd) ==
    CASE dd = DD_BC -> g.bc
      [] dd = DD_DE -> g.de
      [] dd = DD_HL -> g.hl
      [] dd = DD_SP -> g.sp

set_dd_reg(g, dd, v) ==
    CASE dd = DD_BC -> [g EXCEPT !.bc = v]
      [] dd = DD_DE -> [g EXCEPT !.de = v]
      [] dd = DD_HL -> [g EXCEPT !.hl = v]
      [] dd = DD_SP -> [g EXCEPT !.sp = v]

\* qq_reg decoding qq as dd_reg does: code 3 is SP.
qq_reg_sp_for_af(g, qq) == dd_reg(g, qq)

\* *qq_reg(gb, qq)
qq_reg(g, qq) ==
    IF qq = QQ_AF THEN g.af ELSE dd_reg(g, qq)

set_qq_reg(g, qq, v) ==
    IF qq = QQ_AF THEN [g EXCEPT !.af = v] ELSE set_dd_reg(g, qq, v)

get_flag(g, flag) == (g.af \div flag) % 2

\* value is the uint1_t the C caller's argument converts to.
set_flag(g, flag, value) ==
    IF value = 1
    THEN [g EXCEPT !.af = @ + flag * (1 - ((@ \div flag) % 2))]
    ELSE [g EXCEPT !.af = @ - flag * ((@ \div flag) % 2)]

B2N(b) == IF b THEN 1 ELSE 0

\* (int8_t)imm8
Int8(b) == IF b >= 128 THEN b - 256 ELSE b

check_cc(g, cc) ==
    CASE cc = 0 -> get_flag(g, FL_Z) = 0
      [] cc = 1 -> get_flag(g, FL_Z) = 1
      [] cc = 2 -> get_flag(g, FL_C) = 0
      [] cc = 3 -> get_flag(g, FL_C) = 1

add_a(g, operand) ==
    LET a == r_reg(g, R_A)
        raw_result == (a + operand) % 512
        result == raw_result % 256
        raw_half_result == ((a % 16) + (operand % 16)) % 32
        half_result == raw_half_result % 16
        g1 == set_flag(g, FL_C, B2N(raw_result # result))
        g2 == set_flag(g1, FL_H, B2N(raw_half_result # half_result))
        g3 == set_flag(g2, FL_Z, B2N(result = 0))
        g4 == set_flag(g3, FL_N, 0)
    IN  set_r_reg(g4, R_A, result)

\* adc_a keeping the flags of its second add_a only.
adc_a_inter_flags_lost(g, operand) ==
    add_a(add_a(g, operand), get_flag(g, FL_C))

adc_a(g, operand) ==
    LET orig_c_flag == get_flag(g, FL_C)
        g1 == add_a(g, operand)
        inter_c_flag == get_flag(g1, FL_C)
        inter_h_flag == get_flag(g1, FL_H)
        g2 == add_a(g1, orig_c_flag)
        g3 == set_flag(g2, FL_C, B2N(get_flag(g2, FL_C) = 1 \/ inter_c_flag = 1))
    IN  set_flag(g3, FL_H, B2N(get_flag(g3, FL_H) = 1 \/ inter_h_flag = 1))

sub_a(g, operand) ==
    LET a == r_reg(g, R_A)
        raw_result == (a - operand + 512) % 512
        result == raw_result % 256
        raw_half_result == ((a % 16) - (operand % 16) + 32) % 32
        half_result == raw_half_result % 16
        g1 == set_flag(g, FL_C, B2N(raw_result # result))
        g2 == set_flag(g1, FL_H, B2N(raw_half_result # half_result))
        g3 == set_flag(g2, FL_Z, B2N(result = 0))
        g4 == set_flag(g3, FL_N, 1)
    IN  set_r_reg(g4, R_A, result)

sbc_a(g, operand) ==
    LET orig_c_flag == get_flag(g, FL_C)
        g1 == sub_a(g, operand)
        inter_c_flag == get_flag(g1, FL_C)
        inter_h_flag == get_flag(g1, FL_H)
        g2 == sub_a(g1, orig_c_flag)
        g3 == set_flag(g2, FL_C, B2N(get_flag(g2, FL_C) = 1 \/ inter_c_flag = 1))
    IN  set_flag(g3, FL_H, B2N(get_flag(g3, FL_H) = 1 \/ inter_h_flag = 1))

\* and_a, or_a and xor_a differ in the result and in H.
logic_a(g, result, h) ==
    LET g1 == set_flag(g, FL_C, 0)
        g2 == set_flag(g1, FL_H, h)
        g3 == set_flag(g2, FL_Z, B2N(result = 0))
        g4 == set_flag(g3, FL_N, 0)
    IN  set_r_reg(g4, R_A, result)

and_a(g, operand) == logic_a(g, And8(r_reg(g, R_A), operand), 1)

or_a(g, operand) == logic_a(g, Or8(r_reg(g, R_A), operand), 0)

xor_a(g, operand) == logic_a(g, Xor8(r_reg(g, R_A), operand), 0)

\* cp_a without *r_reg(gb, R_A) = a.
cp_a_result_kept(g, operand) == sub_a(g, operand)

cp_a(g, operand) == set_r_reg(sub_a(g, operand), R_A, r_reg(g, R_A))

\* inc8 and dec8: the record with the flags set, and the result.
inc8_flags(g, operand) ==
    LET result == U8(operand + 1)
        raw_half_result == ((operand % 16) + 1) % 32
        half_result == raw_half_result % 16
        g1 == set_flag(g, FL_H, B2N(raw_half_result # half_result))
        g2 == set_flag(g1, FL_Z, B2N(result = 0))
    IN  set_flag(g2, FL_N, 0)

dec8_flags(g, operand) ==
    LET result == U8(operand + 255)
        raw_half_result == ((operand % 16) - 1 + 32) % 32
        half_result == raw_half_result % 16
        g1 == set_flag(g, FL_H, B2N(raw_half_result > half_result))
        g2 == set_flag(g1, FL_Z, B2N(result = 0))
    IN  set_flag(g2, FL_N, 1)

\* The eight operations on A, in the order of bits 5..3 of their opcodes.
alu(g, op, operand) ==
    CASE op = 0 -> add_a(g, operand)
      [] op = 1 -> adc_a(g, operand)
      [] op = 2 -> sub_a(g, operand)
      [] op = 3 -> sbc_a(g, operand)
      [] op = 4 -> and_a(g, operand)
      [] op = 5 -> xor_a(g, operand)
      [] op = 6 -> or_a(g, operand)
      [] op = 7 -> cp_a(g, operand)

\* The cycles step() adds for op with a register operand (form 0), an
\* immediate operand (form 1) and the operand at HL (form 2).
alu_cycles(op, form) ==
    CASE op = 1 -> 0
      [] op = 2 -> IF form = 2 THEN 1 ELSE 2
      [] OTHER -> IF form = 0 THEN 1 ELSE 2

---------------------------------------------------------------------------
(* step(): the instruction at PC, decoded as the switch of step() does.    *)

upper_r(opcode) == (opcode \div 8) % 8

lower_r(opcode) == opcode % 8

dd_of(opcode) == (opcode \div 16) % 4

is_ld_r_r(op) == op >= 64 /\ op <= 127 /\ lower_r(op) # 6 /\ upper_r(op) # 6
is_ld_r_n(op) == op < 64 /\ lower_r(op) = 6 /\ op # 54
is_ld_r_hl(op) == op >= 64 /\ op <= 127 /\ lower_r(op) = 6 /\ op # 118
is_ld_hl_r(op) == op >= 112 /\ op <= 119 /\ op # 118
is_ld_dd_nn(op) == op < 64 /\ op % 16 = 1
is_push(op) == op >= 192 /\ op % 16 = 5
is_pop(op) == op >= 192 /\ op % 16 = 1
is_alu_r(op) == op >= 128 /\ op <= 191 /\ lower_r(op) # 6
is_alu_hl(op) == op >= 128 /\ op <= 191 /\ lower_r(op) = 6
is_alu_n(op) == op >= 192 /\ lower_r(op) = 6
is_inc_r(op) == op < 64 /\ lower_r(op) = 4 /\ op # 52
is_dec_r(op) == op < 64 /\ lower_r(op) = 5 /\ op # 53
is_add_hl(op) == op < 64 /\ op % 16 = 9
is_inc_dd(op) == op < 64 /\ op % 16 = 3
is_dec_dd(op) == op < 64 /\ op % 16 = 11
is_jp_cc(op) == op \in {194, 202, 210, 218}
is_jr_cc(op) == op \in {32, 40, 48, 56}
is_call_cc(op) == op \in {196, 204, 212, 220}
is_ret_cc(op) == op \in {192, 200, 208, 216}
is_rst(op) == op >= 192 /\ lower_r(op) = 7

\* The opcodes that step() recognizes; 0xCB is the prefix of the second
\* page, of which it recognizes every opcode.
Opcodes ==
    (0..255) \ {211, 219, 221, 227, 228, 235, 236, 237, 244, 252, 253}

\* gb->cycles_to_wait += n; gb->pc += k
advance(g, n, k) ==
    [g EXCEPT !.cycles_to_wait = @ + n, !.pc = U16(@ + k)]

\* The cells a write of val to addr touches.
write_cells(addr, val) ==
    {addr} \cup (IF addr = OAM_DMA_START
                 THEN dma_cells(val) \cup {OAM + i : i \in OamOffsets}
                 ELSE {})

write16_cells(addr, val) ==
    write_cells(addr, U8(val)) \cup write_cells(U16(addr + 1), U8(val \div 256))

\* add of a signed byte to SP, for LDHL SP,e and ADD SP,e: the flags.
sp_add_flags(g, imm8) ==
    LET raw_byte_result == ((g.sp % 256) + imm8) % 512
        byte_result == raw_byte_result % 256
        raw_half_result == ((g.sp % 16) + (imm8 % 16)) % 32
        half_result == raw_half_result % 16
        g1 == set_flag(g, FL_H, B2N(raw_half_result # half_result))
        g2 == set_flag(g1, FL_C, B2N(raw_byte_result # byte_result))
        g3 == set_flag(g2, FL_N, 0)
    IN  set_flag(g3, FL_Z, 0)

add_hl(g, dd) ==
    LET raw_result == (g.hl + dd_reg(g, dd)) % 131072
        result == raw_result % 65536
        raw_half_result == ((g.hl % 4096) + (dd_reg(g, dd) % 4096)) % 8192
        half_result == raw_half_result % 4096
        g1 == set_flag(g, FL_H, B2N(raw_half_result # half_result))
        g2 == set_flag(g1, FL_C, B2N(raw_result # result))
        g3 == set_flag(g2, FL_N, 0)
    IN  [g3 EXCEPT !.hl = result]

\* DAA without the test a_contents > 0x99 of its addition branch.
daa_carry_only(g) ==
    LET c_contents == get_flag(g, FL_C)
        h_contents == get_flag(g, FL_H)
        n_contents == get_flag(g, FL_N)
        a_contents == r_reg(g, R_A)
        addend ==
            IF n_contents = 1
            THEN 0 - (IF c_contents = 1 THEN 96 ELSE 0)
                   - (IF h_contents = 1 THEN 6 ELSE 0)
            ELSE (IF c_contents = 1 THEN 96 ELSE 0)
                 + (IF h_contents = 1 \/ a_contents % 16 > 9 THEN 6 ELSE 0)
        g1 == set_flag(g, FL_C, c_contents)
        g2 == set_flag(g1, FL_H, 0)
        g3 == set_r_reg(g2, R_A, U8(a_contents + addend + 256))
    IN  set_flag(g3, FL_Z, B2N(r_reg(g3, R_A) = 0))

daa(g) ==
    LET c_contents == get_flag(g, FL_C)
        h_contents == get_flag(g, FL_H)
        n_contents == get_flag(g, FL_N)
        a_contents == r_reg(g, R_A)
        addend ==
            IF n_contents = 1
            THEN 0 - (IF c_contents = 1 THEN 96 ELSE 0)
                   - (IF h_contents = 1 THEN 6 ELSE 0)
            ELSE (IF c_contents = 1 \/ a_contents > 153 THEN 96 ELSE 0)
                 + (IF h_contents = 1 \/ a_contents % 16 > 9 THEN 6 ELSE 0)
        carry ==
            IF n_contents = 0 /\ (c_contents = 1 \/ a_contents > 153)
            THEN 1
            ELSE c_contents
        g1 == set_flag(g, FL_C, carry)
        g2 == set_flag(g1, FL_H, 0)
        g3 == set_r_reg(g2, R_A, U8(a_contents + addend + 256))
    IN  set_flag(g3, FL_Z, B2N(r_reg(g3, R_A) = 0))

\* RLCA, RLA, RRCA, RRA: the new A and the new C.
rotate_a(g, result, carry) ==
    LET g1 == set_flag(g, FL_C, carry)
        g2 == set_flag(g1, FL_H, 0)
        g3 == set_flag(g2, FL_N, 0)
        g4 == set_flag(g3, FL_Z, 0)
    IN  set_r_reg(g4, R_A, result)

\* pop_qq without gb->af &= 0xfff0.
pop_qq_unmasked(g, qq, val) ==
    [set_qq_reg(g, qq, val) EXCEPT !.sp = U16(@ + 2)]

\* POP qq: the register pair, the mask of F and the stack pointer.
pop_qq(g, qq, val) ==
    [set_qq_reg(g, qq, val) EXCEPT !.af = @ - (@ % 16), !.sp = U16(@ + 2)]

\* The rotates and shifts of the CB page, in the order of bits 5..3 of
\* their opcodes (RLC, RRC, RL, RR, SLA, SRA, SWAP, SRL) on the byte v with
\* the carry flag c: the result and the new carry.
\* The shifts with RL and RR taking no carry in.
cb_shift_carry_in_lost(kind, v, c) ==
    CASE kind = 0 -> [result |-> U8(v * 2) + (v \div 128), carry |-> v \div 128]
      [] kind = 1 -> [result |-> U8(v * 128) + (v \div 2), carry |-> v % 2]
      [] kind = 2 -> [result |-> U8(v * 2), carry |-> v \div 128]
      [] kind = 3 -> [result |-> v \div 2, carry |-> v % 2]
      [] kind = 4 -> [result |-> U8(v * 2), carry |-> v \div 128]
      [] kind = 5 -> [result |-> (v \div 128) * 128 + (v \div 2), carry |-> v % 2]
      [] kind = 6 -> [result |-> U8(v * 16) + (v \div 16), carry |-> 0]
      [] kind = 7 -> [result |-> v \div 2, carry |-> v % 2]

\* The result and the carry of the CB operation of index kind (RLC 0, RRC 1,
\* RL 2, RR 3, SLA 4, SRA 5, SWAP 6, SRL 7) on v with flag C = c.
cb_shift(kind, v, c) ==
    CASE kind = 0 -> [result |-> U8(v * 2) + (v \div 128), carry |-> v \div 128]
      [] kind = 1 -> [result |-> U8(v * 128) + (v \div 2), carry |-> v % 2]
      [] kind = 2 -> [result |-> U8(v * 2) + c, carry |-> v \div 128]
      [] kind = 3 -> [result |-> c * 128 + (v \div 2), carry |-> v % 2]
      [] kind = 4 -> [result |-> U8(v * 2), carry |-> v \div 128]
      [] kind = 5 -> [result |-> (v \div 128) * 128 + (v \div 2), carry |-> v % 2]
      [] kind = 6 -> [result |-> U8(v * 16) + (v \div 16), carry |-> 0]
      [] kind = 7 -> [result |-> v \div 2, carry |-> v % 2]

\* BIT with set_flag taking its value as a truth value: ~(v >> b) is never 0.
bit_test_z_truthy(v, b) == 1

\* The uint1_t that ~(v >> cb_b), the argument of set_flag in BIT, converts
\* to: the low bit of the complement.
bit_test_z(v, b) == (255 - (v \div (2 ^ b))) % 2

\* The switch on imm8 under case 0xCB; the operand is (HL) for cb_r = 6.
execute_cb(g, imm8) ==
    LET cb_r == imm8 % 8
        cb_b == (imm8 \div 8) % 8
        v == IF cb_r = 6 THEN read_mem8(g, g.hl) ELSE r_reg(g, cb_r)
        stored(h, val) == IF cb_r = 6
                          THEN write_mem8(h, g.hl, val)
                          ELSE set_r_reg(h, cb_r, val)
        sh == cb_shift(cb_b, v, get_flag(g, FL_C))
        g1 == set_flag(g, FL_H, 0)
        g2 == set_flag(g1, FL_N, 0)
        g3 == set_flag(g2, FL_Z, B2N(sh.result = 0))
        g4 == set_flag(g3, FL_C, sh.carry)
        b1 == set_flag(g, FL_H, 1)
        b2 == set_flag(b1, FL_N, 0)
        b3 == set_flag(b2, FL_Z, bit_test_z(v, cb_b))
    IN
    CASE imm8 < 64 ->
            advance(stored(g4, sh.result), IF cb_r = 6 THEN 4 ELSE 2, 2)
      [] imm8 >= 64 /\ imm8 < 128 ->
            advance(b3, IF cb_r = 6 THEN 3 ELSE 2, 2)
      [] imm8 >= 128 /\ imm8 < 192 ->
            advance(stored(g, v - Bit(v, cb_b) * (2 ^ cb_b)),
                    IF cb_r = 6 THEN 4 ELSE 2, 2)
      [] OTHER ->
            advance(stored(g, v + (1 - Bit(v, cb_b)) * (2 ^ cb_b)),
                    IF cb_r = 6 THEN 4 ELSE 2, 2)

\* EI that sets IME and leaves the interrupt check to a later step().
enable_interrupts_delayed(g) == [g EXCEPT !.ime = 1]

\* The two flag stores of EI.
enable_interrupts(g) == [g EXCEPT !.ime = 1, !.need_to_do_interrupts = 1]

\* The body of the switch of step() for one opcode of Opcodes.
execute(g, opcode, imm8, imm16) ==
    LET a == r_reg(g, R_A)
        c == get_flag(g, FL_C)
        hl_plus == [g EXCEPT !.hl = U16(@ + 1)]
        hl_minus == [g EXCEPT !.hl = U16(@ + 65535)]
        pushed(val) == [write_mem16(g, U16(g.sp + 65534), val)
                            EXCEPT !.sp = U16(g.sp + 65534)]
        called == write_mem16([g EXCEPT !.sp = U16(@ + 65534)],
                              U16(g.sp + 65534), U16(g.pc + 3))
        returned == [g EXCEPT !.pc = read_mem16(g, g.sp), !.sp = U16(@ + 2)]
    IN
    CASE is_ld_r_r(opcode) ->
            advance(set_r_reg(g, upper_r(opcode), r_reg(g, lower_r(opcode))), 1, 1)
      [] is_ld_r_n(opcode) ->
            advance(set_r_reg(g, upper_r(opcode), imm8), 2, 2)
      [] is_ld_r_hl(opcode) ->
            advance(set_r_reg(g, upper_r(opcode), read_mem8(g, g.hl)), 2, 1)
      [] is_ld_hl_r(opcode) ->
            advance(write_mem8(g, g.hl, r_reg(g, lower_r(opcode))), 2, 1)
      [] opcode = 54 -> advance(write_mem8(g, g.hl, imm8), 2, 2)
      [] opcode = 10 -> advance(set_r_reg(g, R_A, read_mem8(g, g.bc)), 2, 1)
      [] opcode = 26 -> advance(set_r_reg(g, R_A, read_mem8(g, g.de)), 2, 1)
      [] opcode = 242 ->
            advance(set_r_reg(g, R_A, read_mem8(g, 65280 + r_reg(g, R_C))), 2, 1)
      [] opcode = 226 -> advance(write_mem8(g, 65280 + r_reg(g, R_C), a), 2, 1)
      [] opcode = 240 -> advance(set_r_reg(g, R_A, read_mem8(g, 65280 + imm8)), 3, 2)
      [] opcode = 224 -> advance(write_mem8(g, 65280 + imm8, a), 3, 2)
      [] opcode = 250 -> advance(set_r_reg(g, R_A, read_mem8(g, imm16)), 4, 3)
      [] opcode = 234 -> advance(write_mem8(g, imm16, a), 4, 3)
      [] opcode = 42 ->
            advance(set_r_reg(hl_plus, R_A, read_mem8(g, g.hl)), 2, 1)
      [] opcode = 58 ->
            advance(set_r_reg(hl_minus, R_A, read_mem8(g, g.hl)), 2, 1)
      [] opcode = 2 -> advance(write_mem8(g, g.bc, a), 2, 1)
      [] opcode = 18 -> advance(write_mem8(g, g.de, a), 2, 1)
      [] opcode = 34 ->
            advance([write_mem8(g, g.hl, a) EXCEPT !.hl = U16(@ + 1)], 2, 1)
      [] opcode = 50 ->
            advance([write_mem8(g, g.hl, a) EXCEPT !.hl = U16(@ + 65535)], 2, 1)
      [] is_ld_dd_nn(opcode) ->
            advance(set_dd_reg(g, dd_of(opcode), imm16), 3, 3)
      [] opcode = 249 -> advance([g EXCEPT !.sp = g.hl], 2, 1)
      [] is_push(opcode) ->
            advance(pushed(qq_reg(g, dd_of(opcode))), 4, 1)
      [] is_pop(opcode) ->
            advance(pop_qq(g, dd_of(opcode),
                           read_mem8(g, U16(g.sp + 1)) * 256 + read_mem8(g, g.sp)),
                    3, 1)
      [] opcode = 248 ->
            advance([sp_add_flags(g, imm8)
                        EXCEPT !.hl = U16(g.sp + Int8(imm8) + 65536)], 3, 2)
      [] opcode = 8 -> advance(write_mem16(g, imm16, g.sp), 5, 3)
      [] is_alu_r(opcode) ->
            advance(alu(g, upper_r(opcode), r_reg(g, lower_r(opcode))),
                    alu_cycles(upper_r(opcode), 0), 1)
      [] is_alu_n(opcode) ->
            advance(alu(g, upper_r(opcode), imm8),
                    alu_cycles(upper_r(opcode), 1), 2)
      [] is_alu_hl(opcode) ->
            advance(alu(g, upper_r(opcode), read_mem8(g, g.hl)),
                    alu_cycles(upper_r(opcode), 2), 1)
      [] is_inc_r(opcode) ->
            LET v == r_reg(g, upper_r(opcode))
            IN  advance(set_r_reg(inc8_flags(g, v), upper_r(opcode),
                                  U8(v + 1)), 1, 1)
      [] opcode = 52 ->
            LET v == read_mem8(g, g.hl)
            IN  advance(write_mem8(inc8_flags(g, v), g.hl, U8(v + 1)), 3, 1)
      [] is_dec_r(opcode) ->
            LET v == r_reg(g, upper_r(opcode))
            IN  advance(set_r_reg(dec8_flags(g, v), upper_r(opcode),
                                  U8(v + 255)), 1, 1)
      [] opcode = 53 ->
            LET v == read_mem8(g, g.hl)
            IN  advance(write_mem8(dec8_flags(g, v), g.hl, U8(v + 255)), 3, 1)
      [] is_add_hl(opcode) -> advance(add_hl(g, dd_of(opcode)), 2, 1)
      [] opcode = 232 ->
            advance([sp_add_flags(g, imm8)
                        EXCEPT !.sp = U16(g.sp + Int8(imm8) + 65536)], 4, 2)
      [] is_inc_dd(opcode) ->
            advance(set_dd_reg(g, dd_of(opcode),
                               U16(dd_reg(g, dd_of(opcode)) + 1)), 2, 1)
      [] is_dec_dd(opcode) ->
            advance(set_dd_reg(g, dd_of(opcode),
                               U16(dd_reg(g, dd_of(opcode)) + 65535)), 2, 1)
      [] opcode = 7 ->
            advance(rotate_a(g, U8(a * 2) + (a \div 128), a \div 128), 1, 1)
      [] opcode = 23 ->
            advance(rotate_a(g, U8(a * 2) + c, a \div 128), 1, 1)
      [] opcode = 15 ->
            advance(rotate_a(g, U8(a * 128) + (a \div 2), a % 2), 1, 1)
      [] opcode = 31 ->
            advance(rotate_a(g, c * 128 + (a \div 2), a % 2), 1, 1)
      [] opcode = 203 -> execute_cb(g, imm8)
      [] opcode = 195 -> [g EXCEPT !.cycles_to_wait = @ + 4, !.pc = imm16]
      [] is_jp_cc(opcode) ->
            IF check_cc(g, upper_r(opcode) % 4)
            THEN [g EXCEPT !.cycles_to_wait = @ + 4, !.pc = imm16]
            ELSE advance(g, 3, 3)
      [] opcode = 24 -> advance(g, 3, Int8(imm8) + 2 + 65536)
      [] is_jr_cc(opcode) ->
            IF check_cc(g, upper_r(opcode) % 4)
            THEN advance(g, 3, Int8(imm8) + 2 + 65536)
            ELSE advance(g, 2, 2)
      [] opcode = 233 -> [g EXCEPT !.pc = g.hl, !.cycles_to_wait = @ + 1]
      [] opcode = 205 ->
            [called EXCEPT !.pc = imm16, !.cycles_to_wait = @ + 6]
      [] is_call_cc(opcode) ->
            IF check_cc(g, upper_r(opcode) % 4)
            THEN [called EXCEPT !.pc = imm16, !.cycles_to_wait = @ + 6]
            ELSE advance(g, 3, 3)
      [] opcode = 201 -> [returned EXCEPT !.cycles_to_wait = @ + 4]
      [] opcode = 217 ->
            [returned EXCEPT !.ime = 1, !.need_to_do_interrupts = 1,
                             !.cycles_to_wait = @ + 4]
      [] is_ret_cc(opcode) ->
            IF check_cc(g, upper_r(opcode) % 4)
            THEN [returned EXCEPT !.cycles_to_wait = @ + 5]
            ELSE advance(g, 2, 1)
      [] is_rst(opcode) ->
            [pushed(U16(g.pc + 1))
                EXCEPT !.cycles_to_wait = @ + 4, !.pc = upper_r(opcode) * 8]
      [] opcode = 39 -> advance(daa(g), 1, 1)
      [] opcode = 47 ->
            advance(set_flag(set_flag(set_r_reg(g, R_A, 255 - a), FL_H, 1),
                             FL_N, 1), 1, 1)
      [] opcode = 0 -> advance(g, 1, 1)
      [] opcode = 63 ->
            advance(set_flag(set_flag(set_flag(g, FL_C, 1 - c), FL_H, 0),
                             FL_N, 0), 1, 1)
      [] opcode = 55 ->
            advance(set_flag(set_flag(set_flag(g, FL_C, 1), FL_H, 0),
                             FL_N, 0), 1, 1)
      [] opcode = 243 -> advance([g EXCEPT !.ime = 0], 1, 1)
      [] opcode = 251 -> advance(enable_interrupts(g), 1, 1)
      [] opcode = 118 -> advance([g EXCEPT !.halted = 1], 1, 1)
      [] opcode = 16 ->
            advance([write_mem8(g, DIVIDER_REGISTER, 0) EXCEPT !.halted = 1], 1, 2)

\* The cells of address_space the instruction reads or writes.
mem_cells(g, opcode, imm8, imm16) ==
    LET a == r_reg(g, R_A)
        at_hl == read_mem8(g, g.hl)
        stack_read == {read_addr(g.sp), read_addr(U16(g.sp + 1))}
        taken == check_cc(g, upper_r(opcode) % 4)
    IN
    CASE is_ld_r_hl(opcode) \/ is_alu_hl(opcode) \/ opcode \in {42, 58} ->
            read_cells(g.hl)
      [] is_ld_hl_r(opcode) -> write_cells(g.hl, r_reg(g, lower_r(opcode)))
      [] opcode = 54 -> write_cells(g.hl, imm8)
      [] opcode \in {34, 50} -> write_cells(g.hl, a)
      [] opcode = 52 -> read_cells(g.hl) \cup write_cells(g.hl, U8(at_hl + 1))
      [] opcode = 53 -> read_cells(g.hl) \cup write_cells(g.hl, U8(at_hl + 255))
      [] opcode = 10 -> read_cells(g.bc)
      [] opcode = 26 -> read_cells(g.de)
      [] opcode = 2 -> write_cells(g.bc, a)
      [] opcode = 18 -> write_cells(g.de, a)
      [] opcode = 242 -> read_cells(65280 + r_reg(g, R_C))
      [] opcode = 226 -> write_cells(65280 + r_reg(g, R_C), a)
      [] opcode = 240 -> read_cells(65280 + imm8)
      [] opcode = 224 -> write_cells(65280 + imm8, a)
      [] opcode = 250 -> read_cells(imm16)
      [] opcode = 234 -> write_cells(imm16, a)
      [] opcode = 8 -> write16_cells(imm16, g.sp)
      [] is_push(opcode) ->
            write16_cells(U16(g.sp + 65534), qq_reg(g, dd_of(opcode)))
      [] is_rst(opcode) -> write16_cells(U16(g.sp + 65534), U16(g.pc + 1))
      [] opcode = 205 \/ (is_call_cc(opcode) /\ taken) ->
            write16_cells(U16(g.sp + 65534), U16(g.pc + 3))
      [] is_pop(opcode) \/ opcode \in {201, 217} \/ (is_ret_cc(opcode) /\ taken) ->
            stack_read
      [] opcode = 203 /\ imm8 % 8 = 6 ->
            read_cells(g.hl)
            \cup (CASE imm8 < 64 ->
                        write_cells(g.hl, cb_shift(imm8 \div 8, at_hl,
                                                   get_flag(g, FL_C)).result)
                    [] imm8 >= 64 /\ imm8 < 128 -> {}
                    [] imm8 >= 128 /\ imm8 < 192 ->
                        write_cells(g.hl, at_hl - Bit(at_hl, (imm8 \div 8) % 8)
                                                  * (2 ^ ((imm8 \div 8) % 8)))
                    [] OTHER ->
                        write_cells(g.hl, at_hl + (1 - Bit(at_hl, (imm8 \div 8) % 8))
                                                  * (2 ^ ((imm8 \div 8) % 8))))
      [] OTHER -> {}

\* A byte step() fetches at addr: the kept cell, or an input.
fetch(g, addr, inputs) ==
    IF read_addr(addr) \in Tracked THEN {read_mem8(g, addr)} ELSE inputs

---------------------------------------------------------------------------
(* The host's calls.  ctl is the position of the host: between two calls   *)
(* ("host"), in step() before its closing call of handle_interrupts        *)
(* ("irq"), or inside the loop of wait() ("wait").  timer_enabled is the   *)
(* local of wait() of that name.                                           *)

\* Owed and elapsed cycles together stay within the bound of the model.
within(g, max) == g.cycle_count + g.cycles_to_wait <= max

\* The closing if of step() stays within the kept cells and the bound.
dispatch_ok(g, max) ==
    IF g.need_to_do_interrupts = 1
    THEN interrupt_cells(g) \subseteq Tracked /\ within(handle_interrupts(g), max)
    ELSE within(g, max)

\* step() up to its closing if: the switch on the opcode at PC.
StepInstruction(ops, los, his, max) ==
    /\ ctl = "host"
    /\ gb.halted = 0
    /\ \E opcode \in fetch(gb, gb.pc, ops) \cap Opcodes :
       \E lo \in fetch(gb, U16(gb.pc + 1), los) :
       \E hi \in fetch(gb, U16(gb.pc + 2), his) :
            /\ mem_cells(gb, opcode, lo, hi * 256 + lo) \subseteq Tracked
            /\ \E g1 \in {execute(gb, opcode, lo, hi * 256 + lo)} :
                /\ dispatch_ok(g1, max)
                /\ gb' = g1
    /\ ctl' = IF gb'.need_to_do_interrupts = 1 THEN "irq" ELSE "host"
    /\ UNCHANGED timer_enabled

\* step() with the CPU halted, up to its call of handle_interrupts.
StepHalted(max) ==
    /\ ctl = "host"
    /\ gb.halted = 1
    /\ \E g1 \in {IF gb.cycles_to_wait = 0
                   THEN [gb EXCEPT !.cycles_to_wait = @ + 1]
                   ELSE gb} :
            /\ dispatch_ok(g1, max)
            /\ gb' = g1
    /\ ctl' = IF gb'.need_to_do_interrupts = 1 THEN "irq" ELSE "host"
    /\ UNCHANGED timer_enabled

\* The call of handle_interrupts that ends step().
Dispatch ==
    /\ ctl = "irq"
    /\ gb' = handle_interrupts(gb)
    /\ ctl' = "host"
    /\ UNCHANGED timer_enabled

WaitCall ==
    /\ ctl = "host"
    /\ ctl' = "wait"
    /\ timer_enabled' = Bit(read_mem8(gb, TAC), 2)
    /\ UNCHANGED gb

WaitLoop ==
    /\ ctl = "wait"
    /\ gb.cycles_to_wait > 0
    /\ gb' = wait_iteration(gb, timer_enabled)
    /\ UNCHANGED <<ctl, timer_enabled>>

WaitReturn ==
    /\ ctl = "wait"
    /\ ~(gb.cycles_to_wait > 0)
    /\ ctl' = "host"
    /\ timer_enabled' = 0
    /\ UNCHANGED gb

PressButton(buttons) ==
    /\ ctl = "host"
    /\ \E btn \in buttons : gb' = press_button(gb, btn)
    /\ UNCHANGED <<ctl, timer_enabled>>

ReleaseButton(buttons) ==
    /\ ctl = "host"
    /\ \E btn \in buttons : gb' = release_button(gb, btn)
    /\ UNCHANGED <<ctl, timer_enabled>>

\* What fread leaves in the kept cells: one repeated byte.
File(fill) == [a \in Tracked |-> fill]

Files == {File(0), File(255)}

\* dot_count is not set by initialize(): some values it may hold.
DotCounts == {0, 65648}

---------------------------------------------------------------------------
(* Spec: the emulator from initialize(), driven by any sequence of step(), *)
(* wait(), press_button() and release_button().                            *)

MaxCycles == 6

\* The program bytes the ROM may hold at PC: NOP, LD SP,nn, LD A,n, HALT,
\* ADD A,n, LD (nn),A, POP AF, PUSH AF, EI and their operands.
MainOpcodes == {0, 49, 62, 118, 198, 234, 241, 245, 251}
MainLo == {0, 15, 68, 255}
MainHi == {0, 255}
MainButtons == {GB_KEY_A}
MainFiles == {File(255)}

Init ==
    /\ gb \in {initialize(file, dot) : file \in MainFiles, dot \in DotCounts}
    /\ ctl = "host"
    /\ timer_enabled = 0

Step == StepInstruction(MainOpcodes, MainLo, MainHi, MaxCycles)

Halted == StepHalted(MaxCycles)

Press == PressButton(MainButtons)

Release == ReleaseButton(MainButtons)

Next ==
    \/ Step
    \/ Halted
    \/ Dispatch
    \/ WaitCall
    \/ WaitLoop
    \/ WaitReturn
    \/ Press
    \/ Release

Spec == Init /\ [][Next]_vars

---------------------------------------------------------------------------
(* C1: in every state reachable from initialize() by step(), wait(),       *)
(* press_button() and release_button(), bits 3..0 of F, the low byte of    *)
(* AF, are zero; POP AF of any stack bytes leaves them zero.               *)
C1_FlagLowNibbleZero == gb.af % 16 = 0

\* After LD SP,0xFF44 POP AF has read LY = 0x91 into F and LYC into A: F
\* is 0x90.
C1_PopAfWitness ==
    /\ gb.sp = 65350
    /\ gb.pc = 260
    /\ gb.address_space[LY] = 145
    /\ gb.af = 144

---------------------------------------------------------------------------
(* SpecTimer: a program that loads A, stores it to one of DIV, TIMA, TMA   *)
(* and TAC and halts within TimerSetupCycles, and the host's step() and    *)
(* wait() after it up to TimerMaxCycles.  Once called, wait() runs its     *)
(* loop until it returns.                                                  *)

TimerSetupCycles == 6
TimerMaxCycles == 132

\* LD A,n, LDH (n),A and HALT; n is a timer register and a TAC setting.
TimerOpcodes == {62, 118, 224}
TimerLo == {4, 5, 6, 7}

InitTimer ==
    /\ gb = initialize(File(0), 0)
    /\ ctl = "host"
    /\ timer_enabled = 0

TimerStep == StepInstruction(TimerOpcodes, TimerLo, {0}, TimerSetupCycles)

TimerHalted == StepHalted(TimerMaxCycles)

NextTimer ==
    \/ TimerStep
    \/ TimerHalted
    \/ Dispatch
    \/ WaitCall
    \/ WaitLoop
    \/ WaitReturn

SpecTimer ==
    /\ InitTimer
    /\ [][NextTimer]_vars
    /\ WF_vars(WaitLoop)
    /\ WF_vars(WaitReturn)

(* C2: every call of wait() terminates and returns with cycles_to_wait =   *)
(* 0, whatever cycles_to_wait is on entry; each iteration of the loop      *)
(* takes one owed cycle away and nothing in it (the writes of DIV, TIMA,   *)
(* LY, STAT and IF) adds owed cycles.                                      *)
C2_WaitDrains ==
    /\ [][ctl = "wait" /\ ctl' = "wait"
            => gb'.cycles_to_wait = gb.cycles_to_wait - 1]_vars
    /\ [][ctl = "wait" /\ ctl' = "host" => gb'.cycles_to_wait = 0]_vars
    /\ (ctl = "wait") ~> (ctl = "host" /\ gb.cycles_to_wait = 0)

\* wait() has returned after the iteration that wrote DIV, all six cycles
\* of the program drained by one call.
C2_WaitReturnedWitness ==
    /\ ctl = "host"
    /\ gb.cycles_to_wait = 0
    /\ gb.cycle_count = CLOCKS_PER_DIVIDER_INCREMENT
    /\ gb.address_space[DIVIDER_REGISTER] = 0

(* C9: while wait() drains cycles, DIV increases by one modulo 256 each    *)
(* time cycle_count reaches a multiple of 64.                              *)
C9_DivIncrements ==
    [][(/\ ctl = "wait"
        /\ gb'.cycle_count = gb.cycle_count + 1
        /\ gb'.cycle_count % 64 = 0)
        => gb'.address_space[DIVIDER_REGISTER] =
               U8(gb.address_space[DIVIDER_REGISTER] + 1)]_vars

\* The period of TIMA that TAC bits 1..0 select, in M-cycles.
TimaPeriod(tac) ==
    CASE tac % 4 = 0 -> 256
      [] tac % 4 = 1 -> 4
      [] tac % 4 = 2 -> 16
      [] tac % 4 = 3 -> 64

(* C10: with TAC bit 2 set, TIMA ticks on exactly the drained cycles where *)
(* cycle_count is a multiple of the period TAC bits 1..0 select (256, 4,   *)
(* 16, 64 M-cycles for 00, 01, 10, 11); with TAC bit 2 clear TIMA does not *)
(* change during wait().                                                   *)
C10_TimaPeriod ==
    [][(ctl = "wait" /\ gb'.cycle_count = gb.cycle_count + 1)
        => IF Bit(gb.address_space[TAC], 2) = 1
           THEN (gb'.address_space[TIMA] # gb.address_space[TIMA])
                <=> (gb'.cycle_count % TimaPeriod(gb.address_space[TAC]) = 0)
           ELSE gb'.address_space[TIMA] = gb.address_space[TIMA]]_vars

---------------------------------------------------------------------------
(* SpecIrq: programs that set IF, IE, SP and IME and reach the call of     *)
(* handle_interrupts that ends step().                                     *)

IrqMaxCycles == 19

\* LD SP,nn, LD A,n, LDH (n),A and EI; n is a value of IF and IE or the
\* offset of one of them, nn a stack pointer.
IrqOpcodes == {49, 62, 224, 251}
IrqLo == {15, 22, 24, 28, 255}
IrqHi == {221}

InitIrq ==
    /\ gb = initialize(File(255), 0)
    /\ ctl = "host"
    /\ timer_enabled = 0

IrqStep == StepInstruction(IrqOpcodes, IrqLo, IrqHi, IrqMaxCycles)

NextIrq ==
    \/ IrqStep
    \/ Dispatch

SpecIrq == InitIrq /\ [][NextIrq]_vars

\* IF & IE, the interrupts both requested and enabled.
Pending(g) ==
    And8(And8(g.address_space[INTERRUPT_FLAGS],
              g.address_space[INTERRUPT_ENABLE]), 31)

\* The stack cells of a dispatch lie in work RAM or high RAM.
OrdinaryRam(addr) ==
    \/ WRAM <= addr /\ addr < ECHO_RAM
    \/ FAST_RAM <= addr /\ addr < INTERRUPT_ENABLE

StackInRam(g) ==
    /\ OrdinaryRam(U16(g.sp + 65534))
    /\ OrdinaryRam(U16(g.sp + 65535))

\* handle_interrupts is about to run with IME set and an interrupt pending.
Dispatching ==
    /\ ctl = "irq"
    /\ gb.ime = 1
    /\ Pending(gb) # 0
    /\ StackInRam(gb)

(* C4: when handle_interrupts runs with IME set and an interrupt both      *)
(* requested in IF and enabled in IE, with the stack in ordinary RAM, it   *)
(* clears the serviced bit of IF, clears IME, takes 2 from SP, stores the  *)
(* old PC little-endian at the new SP, sets PC to the vector of that       *)
(* interrupt, adds 5 to cycles_to_wait and clears need_to_do_interrupts.   *)
C4_DispatchEffect ==
    [][Dispatching =>
        \E n \in 0..4 :
            /\ Bit(Pending(gb), n) = 1
            /\ Bit(gb'.address_space[INTERRUPT_FLAGS], n) = 0
            /\ gb'.ime = 0
            /\ gb'.sp = U16(gb.sp + 65534)
            /\ gb'.address_space[gb'.sp] = Lo(gb.pc)
            /\ gb'.address_space[U16(gb'.sp + 1)] = Hi(gb.pc)
            /\ gb'.pc = 64 + 8 * n
            /\ gb'.cycles_to_wait = gb.cycles_to_wait + 5
            /\ gb'.need_to_do_interrupts = 0]_vars

\* The timer interrupt has been dispatched from the stack at 0xDDFF.
C4_TimerDispatchedWitness ==
    /\ ctl = "host"
    /\ gb.pc = TIMER_INTERRUPT_ADDRESS
    /\ gb.ime = 0
    /\ gb.sp = 56829
    /\ gb.need_to_do_interrupts = 0
    /\ Bit(gb.address_space[INTERRUPT_FLAGS], 2) = 0

\* The lowest bit number set in x, a nonzero value of five bits.
LowestBit(x) == CHOOSE n \in 0..4 : Bit(x, n) = 1 /\ \A m \in 0..(n - 1) : Bit(x, m) = 0

(* C5: of several interrupts requested and enabled at once, dispatch       *)
(* services the one of the lowest bit number (VBlank 0x40, STAT 0x48,      *)
(* Timer 0x50, Serial 0x58, Joypad 0x60) and clears that bit of IF only:   *)
(* every other bit of IF keeps its value.                                  *)
C5_LowestBitFirst ==
    [][Dispatching =>
        /\ gb'.pc = 64 + 8 * LowestBit(Pending(gb))
        /\ gb'.address_space[INTERRUPT_FLAGS] =
               gb.address_space[INTERRUPT_FLAGS] - 2 ^ LowestBit(Pending(gb))]_vars

\* STAT has been serviced while Timer and Joypad, requested and enabled
\* too, stay pending.
C5_StatBeforeTimerWitness ==
    /\ ctl = "host"
    /\ gb.pc = LCD_STAT_INTERRUPT_ADDRESS
    /\ gb.ime = 0
    /\ Pending(gb) = 20

---------------------------------------------------------------------------
(* SpecBus: programs of LD A,n, LD (nn),A and LD A,(nn) over the kept      *)
(* cells of every region of the memory map.                                *)

BusMaxCycles == 12

BusOpcodes == {62, 234, 250}
BusLo == {0, 1, 160, 255}
BusHi == {0, 127, 160, 192, 221, 224, 253, 254}

InitBus ==
    /\ gb \in {initialize(file, 0) : file \in Files}
    /\ ctl = "host"
    /\ timer_enabled = 0

BusStep == StepInstruction(BusOpcodes, BusLo, BusHi, BusMaxCycles)

NextBus ==
    \/ BusStep
    \/ Dispatch

SpecBus == InitBus /\ [][NextBus]_vars

\* The addresses LD (nn),A and LD A,(nn) take in SpecBus.
BusAddrs == {hi * 256 + lo : hi \in BusHi, lo \in BusLo} \cap Tracked

EchoAddrs == {addr \in BusAddrs : ECHO_RAM <= addr /\ addr < OAM}

RomAddrs == {addr \in BusAddrs : addr < UNSIGNED_TILE_DATA_BASE}

\* Cartridge RAM 0xA000-0xBFFF and the unused range 0xFEA0-0xFEFF.
CartOrUnusedAddrs ==
    {addr \in BusAddrs : \/ CARTRIDGE_RAM <= addr /\ addr < WRAM
                         \/ UNUSED_ADDRESSES <= addr /\ addr < IO_REGS}

\* This step is LD (addr),A: a Write(addr, A).
Stores(addr) ==
    /\ ctl = "host"
    /\ gb.halted = 0
    /\ gb' = execute(gb, 234, Lo(addr), addr)

(* C6: in every reachable state and for every address addr of             *)
(* 0xE000..0xFDFF, the first one 0xE000 included, Read(addr) equals        *)
(* Read(addr - 0x2000).                                                    *)
C6_EchoRead ==
    \A addr \in EchoAddrs : read_mem8(gb, addr) = read_mem8(gb, addr - 8192)

(* C7: a Write(addr, val) to an echo address addr of 0xE000..0xFDFF is     *)
(* stored at addr - 0x2000: right after it Read(addr) and                  *)
(* Read(addr - 0x2000) both return val.                                    *)
C7_EchoWrite ==
    [][\A addr \in EchoAddrs :
        Stores(addr) =>
            /\ read_mem8(gb', addr) = r_reg(gb, R_A)
            /\ read_mem8(gb', addr - 8192) = r_reg(gb, R_A)]_vars

---------------------------------------------------------------------------
(* SpecPPU: from initialize() with dot_count = 0 the program halts within  *)
(* PpuSetupCycles, after setting STAT bit 6 or not, and the host goes on   *)
(* calling step() and wait(): with LCDC bit 7 set each drained cycle calls *)
(* update_screen, for two frames.                                          *)

PpuSetupCycles == 6
PpuMaxCycles == 8500

InitPPU ==
    /\ gb = initialize(File(0), 0)
    /\ ctl = "host"
    /\ timer_enabled = 0

\* LD A,0x41, LDH (0x41),A and HALT: 0x41 is the offset of STAT and a value
\* for it with bit 6 set.
PpuStep == StepInstruction({62, 118, 224}, {65}, {0}, PpuSetupCycles)

PpuHalted == StepHalted(PpuMaxCycles)

NextPPU ==
    \/ PpuStep
    \/ PpuHalted
    \/ Dispatch
    \/ WaitCall
    \/ WaitLoop
    \/ WaitReturn

SpecPPU == InitPPU /\ [][NextPPU]_vars

\* The scanline of a state: the dots of the frame so far, 456 a line.
Scanline(g) == g.dot_count \div 456

\* One step of the mode cycle: within a scanline SEARCHING goes to
\* TRANSFERRING and that to HBLANK; HBLANK ends the scanline, into
\* SEARCHING on the next of the 144 visible lines and into VBLANK after the
\* last; VBLANK ends with the frame.
ModeStep(g, h) ==
    \/ /\ g.graphics_mode = SEARCHING /\ h.graphics_mode = TRANSFERRING
       /\ Scanline(h) = Scanline(g)
    \/ /\ g.graphics_mode = TRANSFERRING /\ h.graphics_mode = HBLANK
       /\ Scanline(h) = Scanline(g)
    \/ /\ g.graphics_mode = HBLANK /\ h.graphics_mode = SEARCHING
       /\ Scanline(h) = Scanline(g) + 1 /\ Scanline(h) < 144
    \/ /\ g.graphics_mode = HBLANK /\ h.graphics_mode = VBLANK
       /\ Scanline(g) = 143 /\ Scanline(h) = 144
    \/ /\ g.graphics_mode = VBLANK /\ h.graphics_mode = SEARCHING
       /\ Scanline(h) = 0

(* C3: from initialize() with dot_count = 0, LCDC bit 7 set and the PPU    *)
(* ticked without pause, graphics_mode goes SEARCHING, TRANSFERRING,       *)
(* HBLANK once on each of 144 scanlines and then enters VBLANK, no mode    *)
(* skipped or repeated, and the VBlank interrupt (IF bit 0) is requested   *)
(* exactly once in each frame of 70224 dots.                               *)
C3_ModeCycle ==
    /\ [][/\ (gb'.graphics_mode # gb.graphics_mode
                \/ (Scanline(gb') # Scanline(gb) /\ Scanline(gb') <= 144))
                => ModeStep(gb, gb')
          /\ gb'.vblank_requests # gb.vblank_requests
                => /\ gb'.vblank_requests = gb.vblank_requests + 1
                   /\ gb.graphics_mode = HBLANK
                   /\ gb'.graphics_mode = VBLANK
                   /\ Bit(gb'.address_space[INTERRUPT_FLAGS], 0) = 1]_vars
    /\ [](gb.vblank_requests =
            (16 * gb.cycle_count) \div 70224
            + (IF gb.graphics_mode = VBLANK THEN 1 ELSE 0))

\* The second frame has entered VBLANK: the second request of the
\* interrupt, after 144 more scanlines.
C3_SecondVblankWitness ==
    /\ gb.graphics_mode = VBLANK
    /\ gb.vblank_requests = 2
    /\ Scanline(gb) = 144
    /\ gb.cycle_count > 4389

---------------------------------------------------------------------------
(* SpecIo: programs of LD A,n and LDH (n),A over the joypad port, the      *)
(* serial data register, DIV, the OAM DMA register, high RAM and IE, with  *)
(* the host pressing and releasing buttons between the steps.  The file    *)
(* loaded gives neighbouring cells and pages different bytes.              *)

IoProgramBytes == 8
IoMaxCycles == 200

\* What fread leaves in the kept cells: a byte that depends on the address.
Ramp == [a \in Tracked |-> (a + a \div 256) % 256]

\* LD A,n and LDH (n),A; n is a value for the joypad port, the high byte of
\* a DMA source, or the offset of a register.
IoOpcodes == {62, 224}
IoLo == {0, 1, 4, 16, 70, 192, 224, 254, 255}
IoButtons == {GB_KEY_A, GB_KEY_DOWN}

InitIo ==
    /\ gb = initialize(Ramp, 0)
    /\ ctl = "host"
    /\ timer_enabled = 0

\* The program is IoProgramBytes long, from the entry point 0x0100.
IoStep ==
    /\ gb.pc < HEADER_OFFSET + IoProgramBytes
    /\ StepInstruction(IoOpcodes, IoLo, {0}, IoMaxCycles)

IoPress == PressButton(IoButtons)

IoRelease == ReleaseButton(IoButtons)

NextIo ==
    \/ IoStep
    \/ Dispatch
    \/ IoPress
    \/ IoRelease

SpecIo == InitIo /\ [][NextIo]_vars

\* This step is LDH (n),A: a Write(0xFF00 + n, A).
StoresHigh(n) ==
    /\ ctl = "host"
    /\ gb.halted = 0
    /\ gb' = execute(gb, 224, n, n)

(* C11: right after a Write of X to 0xFF46, for every i of 0..0x9F the     *)
(* byte at the OAM address 0xFE00 + i equals Read(X * 0x100 + i), for      *)
(* sources in ROM, work RAM, echo RAM, OAM itself and the page of 0xFF00.  *)
C11_DmaCopiesPage ==
    [][(/\ dma_cells(r_reg(gb, R_A)) \subseteq Tracked
        /\ StoresHigh(OAM_DMA_START - IO_REGS))
        => \A i \in OamOffsets :
              gb'.address_space[OAM + i] =
                  read_mem8(gb', U16(r_reg(gb, R_A) * 256 + i))]_vars

\* A DMA from page 0xFF has run with only the action row selected and A
\* pressed: the first byte of OAM is the joypad byte 0xDE, not the byte
\* stored at 0xFF00, and the others are those of 0xFF50 and 0xFF9F.
C11_DmaFromIoPageWitness ==
    /\ r_reg(gb, R_A) = 255
    /\ gb.cycles_to_wait >= DMA_CYCLES
    /\ gb.joypad_mode = ACTIONS_ROW
    /\ gb.buttons_pressed[GB_KEY_A] = 0
    /\ gb.address_space[JOYPAD_PORT] = 31
    /\ gb.address_space[OAM] = 222
    /\ gb.address_space[OAM + 80] = Ramp[65360]
    /\ gb.address_space[OAM + 159] = Ramp[65439]

(* C12: right after a Write to 0xFF04, whatever the value written,         *)
(* Read(0xFF04) is 0.                                                      *)
C12_DivWriteResets ==
    [][StoresHigh(DIVIDER_REGISTER - IO_REGS)
        => read_mem8(gb', DIVIDER_REGISTER) = 0]_vars

\* Before any cycle has been drained, with A = 0xFF, DIV has gone from its
\* initial 0x18 to 0.
C12_DivResetWitness ==
    /\ gb.cycle_count = 0
    /\ r_reg(gb, R_A) = 255
    /\ gb.address_space[DIVIDER_REGISTER] = 0

(* C13: a Write of any value to 0xFF01, the serial data register, leaves   *)
(* every byte of the address space and all other state of the emulator     *)
(* unchanged; the instruction that makes it moves PC and the cycles owed   *)
(* only.                                                                   *)
C13_SerialWriteKeepsState ==
    [][StoresHigh(SERIAL_DATA - IO_REGS)
        => /\ gb'.address_space = gb.address_space
           /\ [gb' EXCEPT !.pc = gb.pc,
                          !.cycles_to_wait = gb.cycles_to_wait] = gb]_vars

\* LDH (1),A has run as the first instruction, with A = 0x01: the address
\* space is as initialize() left it, 0xFF01 holding 0x00.
C13_SerialWrittenWitness ==
    /\ gb.pc = 258
    /\ gb.cycles_to_wait = 3
    /\ r_reg(gb, R_A) = 1
    /\ gb.address_space[SERIAL_DATA] = 0
    /\ gb.address_space = initialize(Ramp, 0).address_space

(* C14: in every reachable state, whatever joypad_mode, the buttons held   *)
(* and the values written to 0xFF00, Read(0xFF00) returns a byte with bits *)
(* 6 and 7 both set.                                                       *)
C14_JoypadHighBits ==
    /\ Bit(read_mem8(gb, JOYPAD_PORT), 6) = 1
    /\ Bit(read_mem8(gb, JOYPAD_PORT), 7) = 1

\* 0x10 has been written to 0xFF00, which stores 0x1F there, and A is
\* pressed: the byte read is 0xDE.
C14_ActionRowWitness ==
    /\ gb.joypad_mode = ACTIONS_ROW
    /\ gb.buttons_pressed[GB_KEY_A] = 0
    /\ gb.buttons_pressed[GB_KEY_DOWN] = 1
    /\ gb.address_space[JOYPAD_PORT] = 31
    /\ read_mem8(gb, JOYPAD_PORT) = 222
    /\ gb.cycles_to_wait < DMA_CYCLES

---------------------------------------------------------------------------
(* SpecLcd: programs of LD A,n and LDH (n),A that write TIMA, TAC and     *)
(* LCDC, switching the LCD off and on again, with the host's wait()        *)
(* between the steps.                                                      *)

LcdMaxCycles == 16

\* n is the offset of TIMA, TAC or LCDC, or a value for them: 0x05 and 0x07
\* start the timer, 0x91 sets LCDC bit 7 and the others clear it.
LcdOpcodes == {62, 224}
LcdLo == {5, 7, 64, 145}

LcdStep == StepInstruction(LcdOpcodes, LcdLo, {0}, LcdMaxCycles)

NextLcd ==
    \/ LcdStep
    \/ Dispatch
    \/ WaitCall
    \/ WaitLoop
    \/ WaitReturn

SpecLcd == InitTimer /\ [][NextLcd]_vars

\* TIMA after one drained cycle that ends at cycle_count = count.
TimaAfter(g, count) ==
    IF timer_enabled = 1
       /\ count % clocks_per_timer_increment(g.address_space[TAC]) = 0
    THEN IF g.address_space[TIMA] = 255
         THEN g.address_space[TMA]
         ELSE g.address_space[TIMA] + 1
    ELSE g.address_space[TIMA]

(* C15: during wait(), every drained M-cycle in which LCDC bit 7 is clear  *)
(* leaves dot_count, graphics_mode, LY, STAT and the framebuffer unchanged *)
(* while cycle_count advances by one and TIMA ticks as the timer has it;   *)
(* dot_count changes in drained cycles with LCDC bit 7 set only, by one    *)
(* cycle's dots from where it was.                                         *)
C15_LcdOffFreezesPpu ==
    /\ [][(/\ ctl = "wait"
           /\ ctl' = "wait"
           /\ gb' # gb
           /\ Bit(gb.address_space[LCD_CONTROL], 7) = 0)
            => /\ gb'.dot_count = gb.dot_count
               /\ gb'.graphics_mode = gb.graphics_mode
               /\ gb'.address_space[LY] = gb.address_space[LY]
               /\ gb'.address_space[LCD_STATUS] = gb.address_space[LCD_STATUS]
               /\ gb'.address_space[LCD_CONTROL] = gb.address_space[LCD_CONTROL]
               /\ gb'.screen_renders = gb.screen_renders
               /\ gb'.cycle_count = gb.cycle_count + 1
               /\ gb'.address_space[TIMA] = TimaAfter(gb, gb.cycle_count + 1)]_vars
    /\ [][gb'.dot_count # gb.dot_count
            => /\ ctl = "wait"
               /\ Bit(gb.address_space[LCD_CONTROL], 7) = 1
               /\ gb'.dot_count = (gb.dot_count + 16) % 70224]_vars

\* After ten cycles with the LCD on, five with it off and one with it on
\* again, dot_count is eleven cycles' dots; TIMA has ticked in the cycles
\* the LCD was off.
C15_LcdResumedWitness ==
    /\ gb.cycle_count = 16
    /\ gb.dot_count = 176
    /\ gb.address_space[LCD_CONTROL] = 145
    /\ gb.address_space[LY] = 0
    /\ gb.graphics_mode = TRANSFERRING
    /\ gb.address_space[TAC] = 5
    /\ gb.address_space[TIMA] >= 2

---------------------------------------------------------------------------
(* SpecStack: programs of LD BC,nn, LD SP,nn, PUSH qq, POP qq, CALL nn and *)
(* RET, on the stack under the initial SP 0xFFFE in high RAM and on one    *)
(* under 0xDDFF in work RAM.                                               *)

StackMaxCycles == 14

\* The bytes of nn: a stack pointer 0xDDFF, a call target 0x1234.
StackLo == {52, 255}
StackHi == {18, 221}

StackStep ==
    StepInstruction({1, 49, 193, 197, 201, 205, 209, 213, 225, 229, 241, 245},
                    StackLo, StackHi, StackMaxCycles)

NextStack ==
    \/ StackStep
    \/ Dispatch

SpecStack == InitIo /\ [][NextStack]_vars

\* This step is the instruction opcode with the operand bytes of imm16.
Runs(opcode, imm16) ==
    /\ ctl = "host"
    /\ gb.halted = 0
    /\ mem_cells(gb, opcode, Lo(imm16), imm16) \subseteq Tracked
    /\ gb' = execute(gb, opcode, Lo(imm16), imm16)

(* C16: for every qq of BC, DE, HL and AF and every register state whose   *)
(* stack bytes SP-2 and SP-1 lie in work RAM or high RAM, PUSH qq followed *)
(* by POP qq leaves AF, BC, DE, HL and SP as they were before the PUSH,    *)
(* the low nibble of F being zero.                                         *)
C16_PushPopRestores ==
    [][\A qq \in 0..3 :
        (StackInRam(gb) /\ Runs(197 + 16 * qq, 0))
            => LET popped == execute(gb', 193 + 16 * qq, 0, 0)
               IN  /\ popped.af = gb.af - (gb.af % 16)
                   /\ popped.bc = gb.bc
                   /\ popped.de = gb.de
                   /\ popped.hl = gb.hl
                   /\ popped.sp = gb.sp]_vars

\* PUSH DE and POP DE have run from initialize(): the stack bytes hold
\* 0x00D8 and the registers are those of initialize().
C16_PushPopDeWitness ==
    /\ gb.pc = 258
    /\ gb.cycles_to_wait = 7
    /\ gb.sp = 65534
    /\ gb.address_space[65532] = 216
    /\ gb.address_space[65533] = 0
    /\ gb.af = 432 /\ gb.bc = 19 /\ gb.de = 216 /\ gb.hl = 333

(* C19: CALL nn at address P with the stack in work RAM or high RAM takes  *)
(* 2 from SP, stores P+3 little-endian at the new SP and sets PC to nn; a  *)
(* RET that follows sets PC to P+3 and SP to its value before the CALL.    *)
C19_CallRet ==
    [][\A lo \in StackLo : \A hi \in StackHi :
        (StackInRam(gb) /\ Runs(205, hi * 256 + lo))
            => /\ gb'.sp = U16(gb.sp + 65534)
               /\ gb'.address_space[gb'.sp] = Lo(U16(gb.pc + 3))
               /\ gb'.address_space[U16(gb'.sp + 1)] = Hi(U16(gb.pc + 3))
               /\ gb'.pc = hi * 256 + lo
               /\ LET returned == execute(gb', 201, 0, 0)
                  IN  /\ returned.pc = U16(gb.pc + 3)
                      /\ returned.sp = gb.sp]_vars

\* LD SP,0xDDFF, CALL 0x1234 and RET have run: PC is 0x0106, the address
\* after the CALL, which the stack bytes at 0xDDFD hold, and SP is 0xDDFF.
C19_ReturnedWitness ==
    /\ gb.pc = 262
    /\ gb.sp = 56831
    /\ gb.cycles_to_wait = 13
    /\ gb.address_space[56829] = 6
    /\ gb.address_space[56830] = 1

---------------------------------------------------------------------------
(* SpecAlu: programs that load A, B and HL, complement the carry flag and  *)
(* add to, subtract from and compare with A a register, the byte at HL or  *)
(* an immediate byte.                                                      *)

AluProgramBytes == 4
AluMaxCycles == 5

\* The immediate bytes: operands at the edges of the nibble and the byte
\* carries, and the low byte of an address for HL, in page 0xC0.
AluLo == {0, 15, 58, 59, 198, 255}

\* LD B,n, LD HL,nn, LD A,n and ADD, ADC, SUB, SBC and CP with n; or CCF
\* and ADD, ADC, SUB, SBC and CP with B and (HL), and SBC A,A, which have
\* no second byte.
AluStep ==
    /\ gb.pc < HEADER_OFFSET + AluProgramBytes
    /\ \/ StepInstruction({6, 33, 62, 198, 206, 214, 222, 254},
                          AluLo, {192}, AluMaxCycles)
       \/ StepInstruction({63, 128, 134, 136, 142, 144, 150, 152, 158, 159,
                           184, 190},
                          {0}, {192}, AluMaxCycles)

NextAlu ==
    \/ AluStep
    \/ Dispatch

SpecAlu == InitIo /\ [][NextAlu]_vars

\* The forms of the operation on A of index k (ADD 0, ADC 1, SUB 2, SBC 3,
\* CP 7) in state g: the opcode and the operand x, register B or A, an
\* immediate byte or the byte at HL.
AluForms(g, k) ==
    {<<128 + 8 * k + r, r_reg(g, r)>> : r \in {R_B, R_A}}
    \cup {<<198 + 8 * k, n>> : n \in AluLo}
    \cup (IF read_cells(g.hl) \subseteq Tracked
          THEN {<<134 + 8 * k, read_mem8(g, g.hl)>>}
          ELSE {})

\* h is g after A + x + cin: the sum modulo 256 in A, Z from the result,
\* N = 0, H from the low nibbles and C from the bytes.
Added(g, h, x, cin) ==
    LET a == r_reg(g, R_A)
    IN  /\ r_reg(h, R_A) = (a + x + cin) % 256
        /\ get_flag(h, FL_Z) = B2N((a + x + cin) % 256 = 0)
        /\ get_flag(h, FL_N) = 0
        /\ get_flag(h, FL_H) = B2N((a % 16) + (x % 16) + cin > 15)
        /\ get_flag(h, FL_C) = B2N(a + x + cin > 255)

\* h is g after A - x - bin, the difference modulo 256 left in A unless
\* compare is set: Z from the result, N = 1, H and C the borrows.
Subtracted(g, h, x, bin, compare) ==
    LET a == r_reg(g, R_A)
        result == (a + 512 - x - bin) % 256
    IN  /\ r_reg(h, R_A) = IF compare THEN a ELSE result
        /\ get_flag(h, FL_Z) = B2N(result = 0)
        /\ get_flag(h, FL_N) = 1
        /\ get_flag(h, FL_H) = B2N((a % 16) < (x % 16) + bin)
        /\ get_flag(h, FL_C) = B2N(a < x + bin)

(* C17: for every A, operand x and carry-in (0 for ADD, flag C for ADC),   *)
(* ADD/ADC A,x leaves A = (A + x + cin) mod 256, Z = (result = 0), N = 0,  *)
(* H = ((A & 0xF) + (x & 0xF) + cin) > 0xF and C = (A + x + cin) > 0xFF.   *)
C17_AddAdcFlags ==
    [][/\ \A f \in AluForms(gb, 0) :
            Runs(f[1], f[2]) => Added(gb, gb', f[2], 0)
       /\ \A f \in AluForms(gb, 1) :
            Runs(f[1], f[2]) => Added(gb, gb', f[2], get_flag(gb, FL_C))]_vars

\* A two-byte instruction and an ADD A,n whose sum is 0x100 have run, as
\* LD A,0x3A and ADD A,0xC6 do: A = 0x00 and F = 0xB0.
C17_AddOverflowWitness ==
    /\ gb.pc = 260
    /\ gb.cycles_to_wait = 4
    /\ gb.af = 176

(* C18: for every A, operand x and borrow-in (0 for SUB and CP, flag C for *)
(* SBC), SUB/SBC leave A = (A - x - bin) mod 256 with Z = (result = 0),    *)
(* N = 1, H = ((A & 0xF) < (x & 0xF) + bin) and C = (A < x + bin); CP sets *)
(* the flags of SUB and leaves A unchanged.                                *)
C18_SubSbcCpFlags ==
    [][/\ \A f \in AluForms(gb, 2) :
            Runs(f[1], f[2]) => Subtracted(gb, gb', f[2], 0, FALSE)
       /\ \A f \in AluForms(gb, 3) :
            Runs(f[1], f[2])
                => Subtracted(gb, gb', f[2], get_flag(gb, FL_C), FALSE)
       /\ \A f \in AluForms(gb, 7) :
            Runs(f[1], f[2]) => Subtracted(gb, gb', f[2], 0, TRUE)]_vars

\* LD A,0x3B and SBC A,A have run with C = 1: A = 0xFF and F = 0x70.
C18_SbcBorrowWitness ==
    /\ gb.pc = 259
    /\ gb.cycles_to_wait = 3
    /\ gb.af = 255 * 256 + 112

\* ------------------------------------------------------------------------
\* The bit tests of the CB page.

BitProgramBytes == 5
BitMaxCycles == 8

\* The second bytes: BIT b,B and BIT b,(HL) for every b, which are also the
\* values loaded into B and the low bytes of HL, with 0x00, 0x9F and 0xFF.
BitLo == {64 + 8 * b + r : b \in 0..7, r \in {R_B, 6}} \cup {0, 159, 255}

\* LD B,n, LD HL,nn with HL in page 0x00 or 0xC0, and the CB page.
BitStep ==
    /\ gb.pc < HEADER_OFFSET + BitProgramBytes
    /\ StepInstruction({6, 33, 203}, BitLo, {0, 192}, BitMaxCycles)

NextBit ==
    \/ BitStep
    \/ Dispatch

SpecBit == InitIo /\ [][NextBit]_vars

(* C20: for every bit index b in 0..7 and every operand, a register or the *)
(* byte at HL, BIT b sets Z to 1 exactly when bit b of the operand is 0,   *)
(* sets H = 1 and N = 0, and leaves C and the operand unchanged.           *)
C20_BitTest ==
    [][\A b \in 0..7 : \A r \in 0..7 :
        Runs(203, 64 + 8 * b + r)
            => LET operand == IF r = 6 THEN read_mem8(gb, gb.hl)
                                       ELSE r_reg(gb, r)
               IN  /\ get_flag(gb', FL_Z) = 1 - Bit(operand, b)
                   /\ get_flag(gb', FL_H) = 1
                   /\ get_flag(gb', FL_N) = 0
                   /\ get_flag(gb', FL_C) = get_flag(gb, FL_C)
                   /\ gb'.address_space = gb.address_space
                   /\ r_reg(gb', R_A) = r_reg(gb, R_A)
                   /\ gb'.bc = gb.bc
                   /\ gb'.de = gb.de
                   /\ gb'.hl = gb.hl]_vars

\* LD HL,0xC000 and BIT 7,(HL) have run on the byte 0xC0: Z = 0, H = 1 and
\* C is still set.
C20_BitOfHlWitness ==
    /\ gb.pc = 261
    /\ gb.cycles_to_wait = 6
    /\ gb.hl = 49152
    /\ gb.af = 256 + 48

\* ------------------------------------------------------------------------
\* The rotates and shifts of the CB page.

ShiftProgramBytes == 5
ShiftMaxCycles == 7

\* The second bytes: RLC, RRC, RL, RR, SLA, SRA and SRL of B and of (HL),
\* which are also values loaded into B, with 0x01, 0x80, 0x81 and 0xFF; 0x00
\* and 0x01 are the low bytes of HL in pages 0x80 and 0xC0.
ShiftLo == {8 * k + r : k \in (0..7) \ {6}, r \in {R_B, 6}} \cup {1, 128, 129, 255}

\* LD B,n, LD HL,nn and the CB page.
ShiftStep ==
    /\ gb.pc < HEADER_OFFSET + ShiftProgramBytes
    /\ StepInstruction({6, 33, 203}, ShiftLo, {128, 192}, ShiftMaxCycles)

NextShift ==
    \/ ShiftStep
    \/ Dispatch

SpecShift == InitIo /\ [][NextShift]_vars

\* Video RAM, cartridge RAM, work RAM and high RAM.
WritableRam(addr) ==
    \/ UNSIGNED_TILE_DATA_BASE <= addr /\ addr < ECHO_RAM
    \/ FAST_RAM <= addr /\ addr < INTERRUPT_ENABLE

\* Bit i of the standard rotate or shift of index k of v with carry c.
ShiftedBit(k, v, c, i) ==
    CASE k = 0 -> Bit(v, (i + 7) % 8)
      [] k = 1 -> Bit(v, (i + 1) % 8)
      [] k = 2 -> IF i = 0 THEN c ELSE Bit(v, i - 1)
      [] k = 3 -> IF i = 7 THEN c ELSE Bit(v, i + 1)
      [] k = 4 -> IF i = 0 THEN 0 ELSE Bit(v, i - 1)
      [] k = 5 -> IF i = 7 THEN Bit(v, 7) ELSE Bit(v, i + 1)
      [] k = 7 -> IF i = 7 THEN 0 ELSE Bit(v, i + 1)

\* The bit shifted out: bit 7 going left, bit 0 going right.
ShiftedOut(k, v) == IF k \in {0, 2, 4} THEN Bit(v, 7) ELSE Bit(v, 0)

(* C21: for each CB-prefixed RLC, RRC, RL, RR, SLA, SRA and SRL on any     *)
(* operand value, a register or the byte at HL when HL is in writable RAM, *)
(* the stored result is the standard rotate or shift of the operand, C is  *)
(* the bit shifted out, Z = (result = 0) and N = H = 0.                    *)
C21_ShiftRotate ==
    [][\A k \in (0..7) \ {6} : \A r \in {R_B, 6} :
        (Runs(203, 8 * k + r) /\ (r = 6 => WritableRam(gb.hl)))
            => LET operand == IF r = 6 THEN read_mem8(gb, gb.hl)
                                       ELSE r_reg(gb, r)
                   result == IF r = 6 THEN read_mem8(gb', gb.hl)
                                      ELSE r_reg(gb', r)
               IN  /\ \A i \in 0..7 :
                        Bit(result, i)
                            = ShiftedBit(k, operand, get_flag(gb, FL_C), i)
                   /\ get_flag(gb', FL_C) = ShiftedOut(k, operand)
                   /\ get_flag(gb', FL_Z) = B2N(result = 0)
                   /\ get_flag(gb', FL_N) = 0
                   /\ get_flag(gb', FL_H) = 0]_vars

\* LD HL,0x8000 and SLA (HL) have run on the byte 0x80: it is 0x00 and
\* F = 0x90.
C21_SlaOfHlWitness ==
    /\ gb.pc = 261
    /\ gb.cycles_to_wait = 7
    /\ gb.hl = 32768
    /\ gb.address_space[32768] = 0
    /\ gb.af = 256 + 144

\* ------------------------------------------------------------------------
\* The buttons, under Spec.

\* The CPU registers of g.
Registers(g) == <<g.af, g.bc, g.de, g.hl, g.sp, g.pc>>

(* C22: press_button(btn) sets only that button's electrical level to 0,   *)
(* sets IF bit 4 and sets need_to_do_interrupts; release_button(btn) sets  *)
(* only that button's level to 1 and leaves IF and need_to_do_interrupts   *)
(* unchanged; neither changes any CPU register.                            *)
C22_ButtonEffects ==
    [][\A btn \in 0..(NUM_BUTTONS - 1) :
        /\ (ctl = "host" /\ gb' = press_button(gb, btn))
            => /\ gb'.buttons_pressed[btn] = 0
               /\ \A other \in (0..(NUM_BUTTONS - 1)) \ {btn} :
                    gb'.buttons_pressed[other] = gb.buttons_pressed[other]
               /\ Bit(gb'.address_space[INTERRUPT_FLAGS], 4) = 1
               /\ gb'.need_to_do_interrupts = 1
               /\ Registers(gb') = Registers(gb)
        /\ (ctl = "host" /\ gb' = release_button(gb, btn))
            => /\ gb'.buttons_pressed[btn] = 1
               /\ \A other \in (0..(NUM_BUTTONS - 1)) \ {btn} :
                    gb'.buttons_pressed[other] = gb.buttons_pressed[other]
               /\ gb'.address_space[INTERRUPT_FLAGS]
                    = gb.address_space[INTERRUPT_FLAGS]
               /\ gb'.need_to_do_interrupts = gb.need_to_do_interrupts
               /\ Registers(gb') = Registers(gb)]_vars

\* After a step() with IME set cleared need_to_do_interrupts, button A was
\* pressed and released: the request and the flag stay, the level is 1.
C22_PressedReleasedWitness ==
    /\ ctl = "host"
    /\ gb.ime = 1
    /\ gb.need_to_do_interrupts = 1
    /\ Bit(gb.address_space[INTERRUPT_FLAGS], 4) = 1
    /\ gb.buttons_pressed[GB_KEY_A] = 1

\* ------------------------------------------------------------------------
\* The call of initialize() in main.  ctl is "main" before it: gb is the
\* uninitialized local of main, which may hold anything.

InitBoot ==
    /\ gb \in [ af : {0, 65535}, bc : {65535}, de : {65535}, hl : {65535},
                pc : {0, 65535}, sp : {0},
                ime : {0, 1},
                address_space : Files,
                screen : {"zero", "drawn"},
                cycles_to_wait : {0, 7},
                cycle_count : {7},
                need_to_do_interrupts : {0, 1},
                dot_count : DotCounts,
                graphics_mode : {HBLANK, TRANSFERRING},
                halted : {0, 1},
                buttons_pressed : {[b \in 0..(NUM_BUTTONS - 1) |-> 0]},
                joypad_mode : {NEITHER},
                vblank_requests : {0},
                screen_renders : {0} ]
    /\ ctl = "main"
    /\ timer_enabled = 0

\* initialize(&gb, argv[1]): the file holds any of Files.
Initialize ==
    /\ ctl = "main"
    /\ \E file \in Files : gb' = initialize(file, gb.dot_count)
    /\ ctl' = "host"
    /\ UNCHANGED timer_enabled

SpecBoot == InitBoot /\ [][Initialize]_vars

(* C23: the state produced by initialize() has A=0x01, F=0xB0, BC=0x0013,  *)
(* DE=0x00D8, HL=0x014D, PC=0x0100, SP=0xFFFE, LCDC=0x91, STAT=0x81,       *)
(* LY=0x91, BGP=0xFC, IF=0xE1, DMA=0xFF, TAC=0xF8, DIV=0x18, IME=0,        *)
(* graphics_mode=SEARCHING, joypad_mode=both, every button level 1,        *)
(* cycles_to_wait=0 and an all-zero framebuffer.                           *)
C23_InitialState ==
    [][ctl = "main"
        => /\ r_reg(gb', R_A) = 1
           /\ Lo(gb'.af) = 176
           /\ gb'.bc = 19
           /\ gb'.de = 216
           /\ gb'.hl = 333
           /\ gb'.pc = 256
           /\ gb'.sp = 65534
           /\ read_mem8(gb', LCD_CONTROL) = 145
           /\ read_mem8(gb', LCD_STATUS) = 129
           /\ read_mem8(gb', LY) = 145
           /\ read_mem8(gb', BGP) = 252
           /\ read_mem8(gb', INTERRUPT_FLAGS) = 225
           /\ read_mem8(gb', OAM_DMA_START) = 255
           /\ read_mem8(gb', TAC) = 248
           /\ read_mem8(gb', DIVIDER_REGISTER) = 24
           /\ gb'.ime = 0
           /\ gb'.graphics_mode = SEARCHING
           /\ gb'.joypad_mode = BOTH
           /\ \A btn \in 0..(NUM_BUTTONS - 1) : gb'.buttons_pressed[btn] = 1
           /\ gb'.cycles_to_wait = 0
           /\ gb'.screen = "zero"]_vars

\* initialize() has run on a file of 0xFF bytes, with the dot_count it
\* found.
C23_InitializedWitness ==
    /\ ctl = "host"
    /\ gb.pc = 256
    /\ gb.dot_count = 65648
    /\ gb.address_space[0] = 255
    /\ gb.screen = "zero"

\* ------------------------------------------------------------------------
\* The main loop, step(); wait(), over programs that set STAT, IF, IE and
\* IME and halt, ServeProgramBytes long, up to ServeMaxCycles.

ServeProgramBytes == 8
ServeMaxCycles == 21

\* The immediate bytes: the offsets of IF, STAT and IE, which are also
\* values for them (0x41 and 0xFF have STAT bit 6, the LY = LYC source),
\* and 0x42.
ServeLo == {15, 65, 66, 255}

\* step() once wait() has returned: NOP, LD A,n, HALT, LDH (n),A and EI.
ServeStep ==
    /\ gb.cycles_to_wait = 0
    /\ gb.pc < HEADER_OFFSET + ServeProgramBytes
    /\ StepInstruction({0, 62, 118, 224, 251}, ServeLo, {0}, ServeMaxCycles)

ServeHalted ==
    /\ gb.cycles_to_wait = 0
    /\ StepHalted(ServeMaxCycles)

NextServe ==
    \/ ServeStep
    \/ ServeHalted
    \/ Dispatch
    \/ WaitCall
    \/ WaitLoop
    \/ WaitReturn

SpecServe == InitIo /\ [][NextServe]_vars

(* C24: if an interrupt enabled in IE becomes requested in IF during       *)
(* wait() while IME is set and the CPU is not halted, the next step()      *)
(* services it before executing the instruction at PC: after that step PC  *)
(* is the interrupt's vector and the word pushed on the stack is the PC    *)
(* value that was current when wait() returned.                            *)
C24_ServicedBeforeFetch ==
    [][(/\ ctl = "host"
        /\ gb.need_to_do_interrupts = 1
        /\ gb.ime = 1
        /\ gb.halted = 0
        /\ Pending(gb) # 0
        /\ StackInRam(gb)
        /\ ctl' = "irq")
        => LET after == handle_interrupts(gb')
           IN  /\ after.pc = 64 + 8 * LowestBit(Pending(gb))
               /\ read_mem16(after, after.sp) = gb.pc]_vars

(* C25: if the CPU is halted and IF & IE is non-zero when step() is        *)
(* called, HALTED is clear when that step() returns, whatever the values   *)
(* of IME and need_to_do_interrupts.                                       *)
C25_HaltedStepWakes ==
    [][(/\ ctl = "host"
        /\ gb.halted = 1
        /\ Pending(gb) # 0
        /\ ctl' # "wait")
        => IF ctl' = "irq"
           THEN handle_interrupts(gb').halted = 0
           ELSE gb'.halted = 0]_vars

(* C26: dispatch with IME clear leaves PC, SP, IF, IE, IME, cycles_to_wait *)
(* and need_to_do_interrupts unchanged; its only effect is to clear        *)
(* HALTED, which it does exactly when IF & IE is non-zero.                 *)
C26_DispatchImeClear ==
    [][(ctl = "irq" /\ gb.ime = 0)
        => gb' = [gb EXCEPT !.halted =
                    IF And8(read_mem8(gb, INTERRUPT_FLAGS),
                            read_mem8(gb, INTERRUPT_ENABLE)) # 0
                    THEN 0 ELSE @]]_vars

\* HALT has run with IME clear, IF = 0xE1 and IE = 0x42: the dispatch that
\* ends this step() finds HALTED set and IF & IE = 0x40.
C26_HaltedPendingWitness ==
    /\ ctl = "irq"
    /\ gb.ime = 0
    /\ gb.halted = 1
    /\ read_mem8(gb, INTERRUPT_FLAGS) = 225
    /\ read_mem8(gb, INTERRUPT_ENABLE) = 66

C28_StepAddsCycles ==
    [][(ctl = "host" /\ gb.halted = 0 /\ ctl' # "wait")
        => LET after == IF ctl' = "irq" THEN handle_interrupts(gb') ELSE gb'
           IN  after.cycles_to_wait >= gb.cycles_to_wait + 1]_vars

---------------------------------------------------------------------------
(* SpecReload: programs of LD A,n and LDH (n),A that write TIMA, TMA and   *)
(* TAC, each step() followed by the host's wait(), up to ReloadMaxCycles.  *)

ReloadMaxCycles == 14

\* n is the offset of TIMA, TMA, TAC or IE, or a value for them: as TAC,
\* 0x05, 0x06, 0x07 and 0xFF start the timer.
ReloadLo == {5, 6, 7, 255}

ReloadStep ==
    /\ gb.cycles_to_wait = 0
    /\ StepInstruction({62, 224}, ReloadLo, {0}, ReloadMaxCycles)

NextReload ==
    \/ ReloadStep
    \/ Dispatch
    \/ WaitCall
    \/ WaitLoop
    \/ WaitReturn

SpecReload == InitTimer /\ [][NextReload]_vars

C30_LineCompare ==
    [][(/\ ctl = "wait"
        /\ gb'.cycle_count = gb.cycle_count + 1
        /\ Bit(gb.address_space[LCD_CONTROL], 7) = 1)
        => /\ gb'.dot_count < 70224
           /\ gb'.address_space[LY] = gb'.dot_count \div 456
           /\ gb'.address_space[LY] <= 153
           /\ Bit(gb'.address_space[LCD_STATUS], 2) = 1
                <=> gb'.address_space[LY] = gb'.address_space[LYC]
           /\ (/\ gb'.address_space[LY] = gb'.address_space[LYC]
               /\ Bit(gb'.address_space[LCD_STATUS], 6) = 1)
                => /\ Bit(gb'.address_space[INTERRUPT_FLAGS], 1) = 1
                   /\ gb'.need_to_do_interrupts = 1]_vars

\* The program has set STAT bit 6 and the tick that starts the second
\* frame finds LY = LYC = 0 again: STAT bit 2 is set and the STAT interrupt
\* is requested.
C30_LineMatchWitness ==
    /\ ctl = "wait"
    /\ gb.cycle_count > 4389
    /\ gb.dot_count < 456
    /\ gb.address_space[LY] = 0
    /\ gb.address_space[LYC] = 0
    /\ Bit(gb.address_space[LCD_STATUS], 6) = 1
    /\ Bit(gb.address_space[LCD_STATUS], 2) = 1
    /\ Bit(gb.address_space[INTERRUPT_FLAGS], 1) = 1

---------------------------------------------------------------------------
(* SpecEdge: programs of LD A,n, LDH (n),A and HALT that write STAT and    *)
(* IF from the first EdgeProgramBytes bytes of the program area, each      *)
(* step() followed by the host's wait(), up to EdgeMaxCycles, from the     *)
(* start of a frame or from the last visible scanline.                     *)

EdgeProgramBytes == 9
EdgeMaxCycles == 30

\* dot_count at the call of initialize(): the start of a frame, and HBLANK
\* of scanline 143, 13 M-cycles before VBLANK.
EdgeDots == {0, 65456}

InitEdge ==
    /\ gb \in {initialize(File(0), dot) : dot \in EdgeDots}
    /\ ctl = "host"
    /\ timer_enabled = 0

\* n is the offset of IF or STAT, or a value for them: 0x00 clears IF, 0x38
\* sets the three mode enables of STAT, 0x41 its bit 6.
EdgeStep ==
    /\ gb.cycles_to_wait = 0
    /\ gb.pc < HEADER_OFFSET + EdgeProgramBytes
    /\ StepInstruction({62, 118, 224}, {0, 15, 56, 65}, {0}, EdgeMaxCycles)

EdgeHalted ==
    /\ gb.cycles_to_wait = 0
    /\ StepHalted(EdgeMaxCycles)

NextEdge ==
    \/ EdgeStep
    \/ EdgeHalted
    \/ Dispatch
    \/ WaitCall
    \/ WaitLoop
    \/ WaitReturn

SpecEdge == InitEdge /\ [][NextEdge]_vars

\* This step is an iteration of wait() that calls update_screen.
PpuTick ==
    /\ ctl = "wait"
    /\ gb'.cycle_count = gb.cycle_count + 1
    /\ Bit(gb.address_space[LCD_CONTROL], 7) = 1

(* C31: with STAT bit 6 clear, a PPU tick sets IF bit 1 only if it changes *)
(* graphics_mode to HBLANK, VBLANK or SEARCHING and the matching STAT      *)
(* enable bit (3, 4 or 5) is set, and sets IF bit 0 only if it changes     *)
(* graphics_mode to VBLANK; a tick that stays in the same mode leaves both *)
(* bits as they were.                                                      *)
C31_ModeEdges ==
    [][(PpuTick /\ Bit(gb.address_space[LCD_STATUS], 6) = 0)
        => LET stat == gb.address_space[LCD_STATUS]
               iflags == gb.address_space[INTERRUPT_FLAGS]
               after == gb'.address_space[INTERRUPT_FLAGS]
               changed == gb'.graphics_mode # gb.graphics_mode
           IN  /\ (Bit(iflags, 1) = 0 /\ Bit(after, 1) = 1)
                    => /\ changed
                       /\ \/ gb'.graphics_mode = HBLANK /\ Bit(stat, 3) = 1
                          \/ gb'.graphics_mode = VBLANK /\ Bit(stat, 4) = 1
                          \/ gb'.graphics_mode = SEARCHING /\ Bit(stat, 5) = 1
               /\ (Bit(iflags, 0) = 0 /\ Bit(after, 0) = 1)
                    => changed /\ gb'.graphics_mode = VBLANK
               /\ ~changed
                    => /\ Bit(after, 1) = Bit(iflags, 1)
                       /\ Bit(after, 0) = Bit(iflags, 0)]_vars

\* The program set the mode enables of STAT and cleared IF before scanline
\* 143 ended: the entry into VBLANK has requested both interrupts.
C31_VblankEdgeWitness ==
    /\ ctl = "wait"
    /\ gb.graphics_mode = VBLANK
    /\ gb.dot_count = 65664
    /\ gb.address_space[LCD_STATUS] = 57
    /\ gb.address_space[INTERRUPT_FLAGS] = 3

(* C32: in programs that do not write STAT, after every PPU tick from      *)
(* initialize() on, bits 1..0 of STAT are the code of graphics_mode:       *)
(* HBLANK 00, VBLANK 01, SEARCHING 10, TRANSFERRING 11.                    *)
C32_StatModeBits ==
    [][PpuTick
        => gb'.address_space[LCD_STATUS] % 4
             = CASE gb'.graphics_mode = HBLANK -> 0
                 [] gb'.graphics_mode = VBLANK -> 1
                 [] gb'.graphics_mode = SEARCHING -> 2
                 [] gb'.graphics_mode = TRANSFERRING -> 3]_vars

(* C33: bit 4 of Read(0xFF00) is set exactly when joypad_mode has the      *)
(* direction row selected; it is clear when only the action row or no row  *)
(* is selected.                                                            *)
C33_DirectionBit ==
    Bit(read_mem8(gb, JOYPAD_PORT), 4) = 1
        <=> And8(gb.joypad_mode, DIRECTIONS_ROW) # 0

(* C34: after a Write of val to 0xFF00, joypad_mode is bits 5..4 of val    *)
(* and bits 3..0 of Read(0xFF00) are the levels of (down, up, left, right) *)
(* when only directions are selected, of (start, select, B, A) when only   *)
(* actions are selected, and the bitwise OR of the two rows when both are. *)
C34_JoypadWrite ==
    [][StoresHigh(JOYPAD_PORT - IO_REGS)
        => LET val == r_reg(gb, R_A)
               b == gb'.buttons_pressed
               low == read_mem8(gb', JOYPAD_PORT) % 16
               dirs == <<b[GB_KEY_DOWN], b[GB_KEY_UP],
                         b[GB_KEY_LEFT], b[GB_KEY_RIGHT]>>
               acts == <<b[GB_KEY_START], b[GB_KEY_SELECT],
                         b[GB_KEY_B], b[GB_KEY_A]>>
           IN  /\ gb'.joypad_mode = (val \div 16) % 4
               /\ gb'.joypad_mode = DIRECTIONS_ROW
                    => \A i \in 1..4 : Bit(low, 4 - i) = dirs[i]
               /\ gb'.joypad_mode = ACTIONS_ROW
                    => \A i \in 1..4 : Bit(low, 4 - i) = acts[i]
               /\ gb'.joypad_mode = BOTH
                    => \A i \in 1..4 :
                          Bit(low, 4 - i)
                            = IF dirs[i] = 1 \/ acts[i] = 1 THEN 1 ELSE 0]_vars

\* 0xE0 has been written to 0xFF00 with A and DOWN pressed: the direction
\* row alone is selected and the byte read is 0xD7.
C34_DirectionRowWitness ==
    /\ ctl = "host"
    /\ gb.joypad_mode = DIRECTIONS_ROW
    /\ gb.buttons_pressed[GB_KEY_A] = 0
    /\ gb.buttons_pressed[GB_KEY_DOWN] = 0
    /\ read_mem8(gb, JOYPAD_PORT) = 215

---------------------------------------------------------------------------
(* The rasterizer: render_tile and render_sprite on the pixels of          *)
(* gb->screen and the cells of the address space a specification keeps.    *)

\* The 2-bit colour index of column curr_x in a tile row of bytes
\* tile_data_hi (read first) and tile_data_lo.
palette_index(tile_data_hi, tile_data_lo, curr_x) ==
    2 * Bit(tile_data_hi, 7 - curr_x) + Bit(tile_data_lo, 7 - curr_x)

\* render_tile: the two loops store a colour into each pixel of the tile
\* that lies on the screen, except, for a sprite tile, where the colour
\* index is 0.  Each kept pixel is the target of at most one (i, j).
render_tile(g, start_y, start_x, tile_address, palette_address, is_sprite_tile, y_flip, x_flip) ==
    [g EXCEPT !.screen =
        [p \in DOMAIN g.screen |->
            LET curr_y == p[1] - start_y
                curr_x == p[2] - start_x
            IN  IF curr_y \in 0..7 /\ curr_x \in 0..7
                THEN LET hi == read_mem8(g, U16(tile_address + 2 * curr_y))
                         lo == read_mem8(g, U16(tile_address + 2 * curr_y + 1))
                         index == palette_index(hi, lo, curr_x)
                     IN  IF index # 0 \/ is_sprite_tile = 0
                         THEN (read_mem8(g, palette_address)
                                 \div (2 ^ (2 * index))) % 4
                         ELSE g.screen[p]
                ELSE g.screen[p]]]

render_sprite(g, sprite_address) ==
    LET y == U8(read_mem8(g, sprite_address) + 256 - 16)
        x == U8(read_mem8(g, U16(sprite_address + 1)) + 256 - 8)
        tile_address == U16(UNSIGNED_TILE_DATA_BASE
                            + read_mem8(g, U16(sprite_address + 2)))
        attrs == read_mem8(g, U16(sprite_address + 3))
        palette_address == IF Bit(attrs, 4) = 1 THEN OBP1 ELSE OBP0
        x_flip == Bit(attrs, 5)
        y_flip == Bit(attrs, 6)
    IN  render_tile(g, y, x, tile_address, palette_address, 0, y_flip, x_flip)

---------------------------------------------------------------------------
(* SpecSprite: one call of render_sprite for the first OAM entry, over the *)
(* top SpriteRows rows of the eight leftmost screen columns, filled with   *)
(* one background colour.                                                  *)

SpriteRows == 2

SpritePixels == (0..(SpriteRows - 1)) \X (0..7)

\* The OAM entry: y is 16 or 17, x is 8, tile 0, palette OBP0 or OBP1.
\* The first rows of tile 0 and the two object palettes.
SpriteMemory ==
    [{OAM} -> {16, 17}]
    \X [{OAM + 1} -> {8}]
    \X [{OAM + 2} -> {0}]
    \X [{OAM + 3} -> {0, 16}]
    \X [{UNSIGNED_TILE_DATA_BASE} -> {0, 165}]
    \X [{UNSIGNED_TILE_DATA_BASE + 1} -> {0, 195}]
    \X [(UNSIGNED_TILE_DATA_BASE + 2)
          ..(UNSIGNED_TILE_DATA_BASE + 2 * SpriteRows - 1) -> {0, 255}]
    \X [{OBP0} -> {252, 228}]
    \X [{OBP1} -> {27}]

\* The cells of the nine parts of m as one function.
Joined(m) ==
    [a \in UNION {DOMAIN m[k] : k \in 1..9} |->
        LET k == CHOOSE k \in 1..9 : a \in DOMAIN m[k] IN m[k][a]]

InitSprite ==
    /\ gb \in {[initialize(File(0), 0) EXCEPT
                    !.address_space = Joined(m),
                    !.screen = [p \in SpritePixels |-> colour]] :
               m \in SpriteMemory, colour \in 0..3}
    /\ ctl = "render"
    /\ timer_enabled = 0

RenderSprite ==
    /\ ctl = "render"
    /\ gb' = render_sprite(gb, OAM)
    /\ ctl' = "host"
    /\ UNCHANGED timer_enabled

SpecSprite == InitSprite /\ [][RenderSprite]_vars

(* C35: when a sprite is rasterized, each of its pixels whose 2-bit colour *)
(* index is 0 is transparent: the framebuffer pixel under it is unchanged. *)
C35_SpriteTransparency ==
    [][ctl = "render"
        => \A p \in SpritePixels :
             LET curr_y == p[1] - (gb.address_space[OAM] - 16)
                 curr_x == p[2] - (gb.address_space[OAM + 1] - 8)
                 row == UNSIGNED_TILE_DATA_BASE + gb.address_space[OAM + 2]
                          + 2 * curr_y
             IN  (/\ curr_y \in 0..7
                  /\ curr_x \in 0..7
                  /\ Bit(gb.address_space[row], 7 - curr_x) = 0
                  /\ Bit(gb.address_space[row + 1], 7 - curr_x) = 0)
                    => gb'.screen[p] = gb.screen[p]]_vars

---------------------------------------------------------------------------
(* SpecBcd: programs of LD A,n, ADD A,n, SUB n and DAA on packed-BCD       *)
(* bytes, in the first BcdProgramBytes bytes of the program area.          *)

BcdProgramBytes == 5
BcdMaxCycles == 5

\* The packed-BCD bytes: both nibbles are decimal digits.
BcdBytes == {16 * h + l : h \in 0..9, l \in 0..9}

BcdStep ==
    /\ gb.pc < HEADER_OFFSET + BcdProgramBytes
    /\ \/ StepInstruction({62, 198, 214}, BcdBytes, {0}, BcdMaxCycles)
       \/ StepInstruction({39}, {0}, {0}, BcdMaxCycles)

NextBcd ==
    \/ BcdStep
    \/ Dispatch

SpecBcd == InitTimer /\ [][NextBcd]_vars

\* The number a packed-BCD byte stands for, and the byte of a number.
Decimal(x) == 10 * (x \div 16) + (x % 16)

Packed(n) == 16 * (n \div 10) + (n % 10)

(* C36: for packed-BCD bytes a and b, ADD A,b with A = a followed by DAA   *)
(* leaves A the packed BCD of (a + b) mod 100 with C = 1 exactly when      *)
(* a + b >= 100, and SUB b followed by DAA leaves A the packed BCD of      *)
(* (a - b) mod 100 with C = 1 exactly when a < b; in both cases Z is set   *)
(* exactly when A is 0, and H is clear.                                    *)
C36_BcdAdjust ==
    [][(ctl = "host" /\ gb.halted = 0 /\ r_reg(gb, R_A) \in BcdBytes)
        => LET a == r_reg(gb, R_A)
               added == U8(r_reg(gb', R_A) + 256 - a)
               taken == U8(a + 256 - r_reg(gb', R_A))
               after == execute(gb', 39, 0, 0)
               adjusted(n, carry) ==
                   /\ r_reg(after, R_A) = Packed(n)
                   /\ get_flag(after, FL_C) = B2N(carry)
                   /\ get_flag(after, FL_Z) = B2N(n = 0)
                   /\ get_flag(after, FL_H) = 0
           IN  /\ (added \in BcdBytes /\ gb' = execute(gb, 198, added, added))
                    => adjusted((Decimal(a) + Decimal(added)) % 100,
                                Decimal(a) + Decimal(added) >= 100)
               /\ (taken \in BcdBytes /\ gb' = execute(gb, 214, taken, taken))
                    => adjusted((Decimal(a) + 100 - Decimal(taken)) % 100,
                                Decimal(a) < Decimal(taken))]_vars

\* LD A,0x95; ADD A,0x10; DAA has run: 95 + 10 = 105, A is 0x05 and C is
\* set.
C36_AddCarriedWitness ==
    /\ ctl = "host"
    /\ gb.pc = 261
    /\ gb.cycles_to_wait = 5
    /\ gb.af = 1296

---------------------------------------------------------------------------
(* SpecRom: programs that write at the end of the ROM region, with LD      *)
(* (nn),A, LD (nn),SP, PUSH AF, a dispatch on a stack at 0x8001 and a DMA, *)
(* each step() followed by the host's wait(), and the buttons.             *)

RomProgramBytes == 9
RomMaxCycles == 20
RomDmaCycles == 165

\* LD (nn),SP, LD SP,nn, LD A,n, LDH (n),A, LD (nn),A, PUSH AF and EI; nn
\* is 0x7FFF, the last byte of ROM, or the stack pointer 0x8001; n is the
\* offset of IE or a value for it.  LDH (0x46),A, the DMA, is the second
\* instruction if the first is LD A,0xFF, and the last one then.
RomStep ==
    /\ gb.cycles_to_wait = 0
    /\ gb.pc < HEADER_OFFSET + RomProgramBytes
    /\ \/ StepInstruction({8, 49, 62, 224, 234, 245, 251}, {1, 255},
                          {127, 128}, RomMaxCycles)
       \/ /\ gb.pc = HEADER_OFFSET + 2
          /\ StepInstruction({224}, {OAM_DMA_START - IO_REGS}, {0},
                             RomDmaCycles)

RomPress == PressButton({GB_KEY_A})

RomRelease == ReleaseButton({GB_KEY_A})

NextRom ==
    \/ RomStep
    \/ Dispatch
    \/ WaitCall
    \/ WaitLoop
    \/ WaitReturn
    \/ RomPress
    \/ RomRelease

SpecRom == InitBus /\ [][NextRom]_vars

(* C37: no step(), wait(), press_button() or release_button() after        *)
(* initialize() changes a byte of 0x0000-0x7FFF: 8-bit and 16-bit stores,  *)
(* stack pushes, interrupt pushes and DMA leave the ROM region as loaded.  *)
C37_RomUnchanged ==
    [][\A addr \in Tracked :
        addr < UNSIGNED_TILE_DATA_BASE
            => gb'.address_space[addr] = gb.address_space[addr]]_vars

\* VBlank has been dispatched on the stack at 0x8001: the high byte of the
\* return address is stored at 0x8000 and the low byte, for 0x7FFF, is
\* dropped.
C37_PushAtRomEndWitness ==
    /\ ctl = "host"
    /\ gb.pc = VBLANK_INTERRUPT_ADDRESS
    /\ gb.sp = 32767
    /\ gb.address_space[32768] = 1
    /\ gb.address_space[32767] = 255

(* C38: when handle_interrupts runs with IME set and no interrupt both     *)
(* requested and enabled (IF & IE & 0x1F = 0), it leaves PC, SP, IME, IF   *)
(* and cycles_to_wait unchanged and clears need_to_do_interrupts: the 5    *)
(* cycles of a dispatch are charged only when an interrupt is serviced.    *)
C38_IdleDispatch ==
    [][(ctl = "irq" /\ gb.ime = 1 /\ Pending(gb) = 0)
        => /\ gb'.pc = gb.pc
           /\ gb'.sp = gb.sp
           /\ gb'.ime = gb.ime
           /\ gb'.address_space[INTERRUPT_FLAGS]
                = gb.address_space[INTERRUPT_FLAGS]
           /\ gb'.cycles_to_wait = gb.cycles_to_wait
           /\ gb'.need_to_do_interrupts = 0]_vars

---------------------------------------------------------------------------
(* SpecWake: the main loop, step() then wait(), on programs of LD A,0xFF,  *)
(* LDH (0xFF),A, EI and HALT that halt within WakeSetupCycles, from a      *)
(* dot_count that enters VBLANK after them; the loop goes on while the CPU *)
(* is halted, up to WakeMaxCycles.                                         *)

WakeSetupCycles == 12
WakeMaxCycles == 30

\* dot_count at the call of initialize(): 20 M-cycles before VBLANK.
WakeDot == VBLANK_START_DOT - 20 * DOTS_PER_CYCLE

InitWake ==
    /\ gb = initialize(File(0), WakeDot)
    /\ ctl = "host"
    /\ timer_enabled = 0

WakeStep ==
    /\ gb.cycles_to_wait = 0
    /\ StepInstruction({62, 118, 224, 251}, {255}, {0}, WakeSetupCycles)

WakeHalted ==
    /\ gb.cycles_to_wait = 0
    /\ StepHalted(WakeMaxCycles)

\* wait() after a step that left cycles owed.
WakeWait ==
    /\ gb.cycles_to_wait > 0
    /\ WaitCall

NextWake ==
    \/ WakeStep
    \/ WakeHalted
    \/ Dispatch
    \/ WakeWait
    \/ WaitLoop
    \/ WaitReturn

SpecWake == InitWake /\ [][NextWake]_vars /\ WF_vars(NextWake)

(* C39: if the CPU is halted while LCDC bit 7 and IE bit 0 are set, the    *)
(* loop of step() and wait() eventually clears HALTED, whatever IME is:    *)
(* the halted steps owe cycles, the PPU reaches VBLANK, whose request sets *)
(* IF bit 0 and need_to_do_interrupts, and the next step wakes the CPU;    *)
(* while the CPU stays halted PC does not change.                          *)
C39_HaltedWakes ==
    /\ [][(gb.halted = 1 /\ gb'.halted = 1) => gb'.pc = gb.pc]_vars
    /\ (/\ gb.halted = 1
        /\ Bit(gb.address_space[LCD_CONTROL], 7) = 1
        /\ Bit(gb.address_space[INTERRUPT_ENABLE], 0) = 1)
            ~> (gb.halted = 0)

\* HALT ran in the VBlank handler at 0x0040 with IF bit 0 and
\* need_to_do_interrupts cleared by the dispatch; the entry into VBLANK
\* has woken the CPU with PC still after the HALT.
C39_WokenInHandlerWitness ==
    /\ ctl = "host"
    /\ gb.halted = 0
    /\ gb.pc = VBLANK_INTERRUPT_ADDRESS + 1
    /\ gb.ime = 0
    /\ gb.graphics_mode = VBLANK
    /\ gb.vblank_requests = 1
    /\ Bit(gb.address_space[INTERRUPT_FLAGS], 0) = 1
====
